---------------------------- MODULE Spec2Model ----------------------------
(***************************************************************************)
(* A model of the real-estate listing analyzers: the CSV loaders of the    *)
(* four analyzer classes, the content-based column classifier, the         *)
(* sequential-identical-column drop, and the metric extraction stages.     *)
(*                                                                         *)
(* Cell values are modelled as the text pandas holds for them.  A missing  *)
(* cell is the text "nan": read_csv maps an empty field (and the texts     *)
(* "nan", "NaN", ...) to NaN, and str(NaN) is "nan".  A table is a record  *)
(* [columns, dtypes, data]: the column labels, the dtype pandas inferred   *)
(* for each column, and the rows (each a sequence of cells).               *)
(***************************************************************************)
EXTENDS Integers, Sequences, FiniteSets, TLC

VARIABLES
    analyzer,   \* the analyzer class under construction ("none" outside Spec)
    csv,        \* the file at file_path: a raw table, or FileMissing
    df,         \* self.df of the analyzer
    pc,         \* position of the running constructor / driver
    stages,     \* the stages the constructor has executed, in order
    error,      \* the messages emitted so far (st.error / print)
    arg,        \* input of the function under study (function specifications)
    ret,        \* its result
    session     \* st.session_state of the application: the page and the source

vars == <<analyzer, csv, df, pc, stages, error, arg, ret, session>>

-----------------------------------------------------------------------------
(* Text *)

NaN == "nan"

isna(x) == x = NaN

Char(s, i) == SubSeq(s, i, i)

Digits == {"0", "1", "2", "3", "4", "5", "6", "7", "8", "9"}

\* char.isdigit()
isdigit(c) == c \in Digits

\* pat in s
Contains(s, pat) ==
    \E i \in 1..(Len(s) - Len(pat) + 1) : SubSeq(s, i, i + Len(pat) - 1) = pat

\* re.search('p1|p2|...', s) for literal alternatives
ContainsAny(s, pats) == \E p \in pats : Contains(s, p)

UpperAZ == "ABCDEFGHIJKLMNOPQRSTUVWXYZ"
LowerAZ == "abcdefghijklmnopqrstuvwxyz"

LowerChar(c) ==
    IF \E i \in 1..Len(UpperAZ) : Char(UpperAZ, i) = c
    THEN Char(LowerAZ, CHOOSE i \in 1..Len(UpperAZ) : Char(UpperAZ, i) = c)
    ELSE c

RECURSIVE Lower(_)
Lower(s) == IF s = "" THEN "" ELSE LowerChar(Char(s, 1)) \o Lower(SubSeq(s, 2, Len(s)))

\* ''.join(char for char in s if char.isdigit())
RECURSIVE DigitsOf(_)
DigitsOf(s) ==
    IF s = "" THEN ""
    ELSE (IF isdigit(Char(s, 1)) THEN Char(s, 1) ELSE "") \o DigitsOf(SubSeq(s, 2, Len(s)))

\* ''.join(char for char in s if char.isdigit() or char == '.')
RECURSIVE DigitsAndPointsOf(_)
DigitsAndPointsOf(s) ==
    IF s = "" THEN ""
    ELSE (IF isdigit(Char(s, 1)) \/ Char(s, 1) = "." THEN Char(s, 1) ELSE "")
         \o DigitsAndPointsOf(SubSeq(s, 2, Len(s)))

\* s.count('.')
RECURSIVE CountPoints(_)
CountPoints(s) ==
    IF s = "" THEN 0
    ELSE (IF Char(s, 1) = "." THEN 1 ELSE 0) + CountPoints(SubSeq(s, 2, Len(s)))

\* the text is a decimal literal float() and the CSV parser accept:
\* digits with at most one point and at least one digit
IsNumberText(s) ==
    /\ s # ""
    /\ \A i \in 1..Len(s) : isdigit(Char(s, i)) \/ Char(s, i) = "."
    /\ CountPoints(s) <= 1
    /\ \E i \in 1..Len(s) : isdigit(Char(s, i))

RECURSIVE StripLeadingZeros(_)
StripLeadingZeros(s) ==
    IF Len(s) > 1 /\ Char(s, 1) = "0" THEN StripLeadingZeros(SubSeq(s, 2, Len(s))) ELSE s

RECURSIVE StripTrailingZeros(_)
StripTrailingZeros(s) ==
    IF Len(s) > 1 /\ Char(s, Len(s)) = "0"
    THEN StripTrailingZeros(SubSeq(s, 1, Len(s) - 1)) ELSE s

PointAt(s) == IF Contains(s, ".") THEN CHOOSE i \in 1..Len(s) : Char(s, i) = "." ELSE Len(s) + 1

IntPart(s) == IF PointAt(s) = 1 THEN "0" ELSE StripLeadingZeros(SubSeq(s, 1, PointAt(s) - 1))

FracPart(s) ==
    IF PointAt(s) >= Len(s) THEN "0" ELSE StripTrailingZeros(SubSeq(s, PointAt(s) + 1, Len(s)))

\* str(float(s)) for a decimal literal s: "80" -> "80.0", "3.50" -> "3.5"
FloatRepr(s) == IntPart(s) \o "." \o FracPart(s)

\* str(int(s)) for a literal of digits
IntRepr(s) == StripLeadingZeros(s)


-----------------------------------------------------------------------------
(* Tables *)

Min(a, b) == IF a < b THEN a ELSE b

RECURSIVE SelectIdx(_, _, _)
\* the indices i of 1..n with keep[i], in increasing order
SelectIdx(keep, i, n) ==
    IF i > n THEN <<>>
    ELSE (IF keep[i] THEN <<i>> ELSE <<>>) \o SelectIdx(keep, i + 1, n)

\* pd.DataFrame()
EmptyDF == [columns |-> <<>>, dtypes |-> <<>>, data |-> <<>>]

\* df.empty
IsEmpty(t) == Len(t.columns) = 0 \/ Len(t.data) = 0

HasCol(t, name) == \E i \in 1..Len(t.columns) : t.columns[i] = name

ColIndex(t, name) == CHOOSE i \in 1..Len(t.columns) :
    /\ t.columns[i] = name
    /\ \A j \in 1..(i - 1) : t.columns[j] # name

\* df.iloc[:, i] as a sequence of cells
ColumnAt(t, i) == [r \in 1..Len(t.data) |-> t.data[r][i]]

\* the table restricted to the column positions idx (a sequence of positions)
TakeCols(t, idx) ==
    [columns |-> [k \in 1..Len(idx) |-> t.columns[idx[k]]],
     dtypes  |-> [k \in 1..Len(idx) |-> t.dtypes[idx[k]]],
     data    |-> [r \in 1..Len(t.data) |-> [k \in 1..Len(idx) |-> t.data[r][idx[k]]]]]

\* df.drop(names, axis=1): every column carrying one of the labels goes
DropCols(t, names) ==
    TakeCols(t, SelectIdx([i \in 1..Len(t.columns) |-> t.columns[i] \notin names],
                          1, Len(t.columns)))

\* df[mask]: the rows r with keep[r]
TakeRows(t, keep) ==
    LET idx == SelectIdx(keep, 1, Len(t.data))
    IN  [t EXCEPT !.data = [k \in 1..Len(idx) |-> t.data[idx[k]]]]

\* a result of a call: the exception it raised ("none" when it returned) and
\* the table it returned
Ok(t) == [exc |-> "none", df |-> t]
Raise(e) == [exc |-> e, df |-> EmptyDF]

FileOk == "ok"
FileMissing == "missing"
FileUnparsable == "unparsable"

\* the dtype the CSV parser infers for a column of texts
InferDtype(col) ==
    IF \A r \in DOMAIN col : isna(col[r]) \/ IsNumberText(col[r])
    THEN IF Len(col) = 0 THEN "object"
         ELSE IF \A r \in DOMAIN col : ~isna(col[r]) /\ ~Contains(col[r], ".")
              THEN "int64" ELSE "float64"
    ELSE "object"

\* the value the parser stores for a cell, as the text str() gives for it
ParsedCell(dtype, x) ==
    IF isna(x) THEN NaN
    ELSE IF dtype = "int64" THEN IntRepr(x)
    ELSE IF dtype = "float64" THEN FloatRepr(x)
    ELSE x

\* pd.read_csv(file_path, encoding='utf-8'): the first line is the header
read_csv(file) ==
    IF file.status = FileMissing THEN Raise("FileNotFoundError")
    ELSE IF file.status = FileUnparsable THEN Raise("ParserError")
    ELSE LET n  == Len(file.header)
             dt == [i \in 1..n |-> InferDtype([r \in 1..Len(file.lines) |-> file.lines[r][i]])]
         IN  Ok([columns |-> file.header,
                 dtypes  |-> dt,
                 data    |-> [r \in 1..Len(file.lines) |->
                                [i \in 1..n |-> ParsedCell(dt[i], file.lines[r][i])]]])

-----------------------------------------------------------------------------
(* drop_sequential_identical_columns *)

SeqRows == 20

\* df[column].iloc[1:20].eq(first_value).all(): a missing value equals nothing
SequentialIdentical(col) ==
    \A r \in 2..Min(SeqRows, Len(col)) : ~isna(col[1]) /\ col[r] = col[1]

\* the labels collected in columns_to_drop
ColumnsToDrop(t) ==
    {t.columns[i] : i \in {j \in 1..Len(t.columns) : SequentialIdentical(ColumnAt(t, j))}}

\* a variant that stops after the first identical column
drop_first_identical_column_only(t) ==
    IF Len(t.columns) > 0 /\ Len(t.data) = 0 THEN Raise("IndexError")
    ELSE LET ident == {j \in 1..Len(t.columns) : SequentialIdentical(ColumnAt(t, j))}
         IN  IF ident = {} THEN Ok(t)
             ELSE Ok(DropCols(t, {t.columns[CHOOSE j \in ident : \A k \in ident : j <= k]}))

\* yad_2_column_identifier.drop_sequential_identical_columns; iloc[0] of a
\* column without rows raises IndexError
drop_sequential_identical_columns(t) ==
    IF Len(t.columns) > 0 /\ Len(t.data) = 0 THEN Raise("IndexError")
    ELSE Ok(DropCols(t, ColumnsToDrop(t)))

\* madlan_column_identifier.drop_sequential_identical_columns: the same code
madlan_drop_sequential_identical_columns(t) ==
    IF Len(t.columns) > 0 /\ Len(t.data) = 0 THEN Raise("IndexError")
    ELSE Ok(DropCols(t, ColumnsToDrop(t)))

-----------------------------------------------------------------------------
(* identify_column: a series is a record [dtype, values] *)

HeadRows == 20

SeriesAt(t, i) == [dtype |-> t.dtypes[i], values |-> ColumnAt(t, i)]

\* series.dropna().head(20)
Sample(series) ==
    LET v   == series.values
        idx == SelectIdx([r \in 1..Len(v) |-> ~isna(v[r])], 1, Len(v))
    IN  [k \in 1..Min(HeadRows, Len(idx)) |-> v[idx[k]]]

\* sample.str.contains(p1|p2|...).any()
AnyContains(sample, pats) == \E k \in 1..Len(sample) : ContainsAny(sample[k], pats)

\* re.search(r'\d+(\.\d+)?\s*<word>', s): a digit, optional blanks, the word
DigitBeforeWord(s, word) ==
    \E i \in 1..Len(s) : \E j \in (i + 1)..(Len(s) - Len(word) + 1) :
        /\ isdigit(Char(s, i))
        /\ \A k \in (i + 1)..(j - 1) : Char(s, k) = " "
        /\ SubSeq(s, j, j + Len(word) - 1) = word

\* re.search(r'[0-9]', s)
HasDigit(s) == \E i \in 1..Len(s) : isdigit(Char(s, i))

CurrencyWords == {"₪", "שח", "ש\"ח"}
MovementWords == {"ירד", "עלה", "עודכן"}
RoomsWord == "חדרים"

\* the .str accessor exists for text columns only
StrAccessorRaises(series) == series.dtype # "object"

\* madlan_column_identifier.identify_column
madlan_identify_column(series) ==
    LET sample == Sample(series) IN
    IF StrAccessorRaises(series) THEN "AttributeError"
    ELSE IF AnyContains(sample, {"http"}) /\ AnyContains(sample, {"madlan"}) THEN "link"
    ELSE IF AnyContains(sample, {"http"}) /\ AnyContains(sample, {"developer", "agents"})
         THEN "developer_link"
    ELSE IF AnyContains(sample, {"http"})
            /\ AnyContains(sample, {"img", "image", "jpg", "png", "images2"})
         THEN "image_src"
    ELSE IF AnyContains(sample, {"רחוב", "שכונה", "דירה", ","}) THEN "address"
    ELSE IF \E k \in 1..Len(sample) : DigitBeforeWord(sample[k], RoomsWord) THEN "rooms"
    ELSE IF AnyContains(sample, {"קומה", "קרקע", "מרתף"}) THEN "floor"
    ELSE IF AnyContains(sample, {"מ\"ר", "מטר"}) THEN "size"
    ELSE IF AnyContains(sample, CurrencyWords) THEN "price"
    ELSE IF AnyContains(sample, {"פרויקט", "מתחם"}) THEN "project_name"
    ELSE IF AnyContains(sample, {"בלעדי", "אקסקלוסיבי"}) THEN "exclusive"
    ELSE "additional_info"

\* yad_2_column_identifier.identify_column
identify_column(series) ==
    LET sample == Sample(series) IN
    IF StrAccessorRaises(series) THEN "AttributeError"
    ELSE IF AnyContains(sample, {"http"}) /\ AnyContains(sample, {"yad2"}) THEN "link"
    ELSE IF AnyContains(sample, {"http"}) /\ AnyContains(sample, {"img"}) THEN "img_src"
    ELSE IF AnyContains(sample, CurrencyWords) /\ AnyContains(sample, MovementWords)
         THEN "price_change"
    ELSE IF AnyContains(sample, CurrencyWords) /\ (\E k \in 1..Len(sample) : HasDigit(sample[k]))
         THEN "price"
    ELSE IF AnyContains(sample, {"רחוב", "שכונה", "דירה"}) THEN "address"
    ELSE IF AnyContains(sample, {"מ\"ר", "חדרים", "קומה"}) THEN "info"
    ELSE IF AnyContains(sample, {"תיווך", "מתווך", "פרטי"}) THEN "publisher"
    ELSE IF AnyContains(sample, {"צפון", "דרום", "מזרח", "מערב", "שכונה"}) THEN "where"
    ELSE "more_info"

MadlanTypes == {"link", "developer_link", "image_src", "address", "rooms", "floor", "size",
                "price", "project_name", "exclusive", "additional_info"}

Yad2Types == {"link", "img_src", "price_change", "price", "address", "info", "publisher",
              "where", "more_info"}

-----------------------------------------------------------------------------
(* identify_and_rename_columns *)

\* len([x for x in new_columns if fallback in x])
CountContaining(names, pat) == Cardinality({k \in 1..Len(names) : Contains(names[k], pat)})

\* type_counts[col_type] after the first k types were handled
TypeCount(column_types, k, type) ==
    Cardinality({j \in 1..k : column_types[j] = type})

\* a variant whose counter is not stored back: every repeat is numbered 2
RECURSIVE RenameColumnsStaleCount(_, _)
RenameColumnsStaleCount(column_types, fallback) ==
    IF column_types = <<>> THEN <<>>
    ELSE LET n           == Len(column_types)
             new_columns == RenameColumnsStaleCount(SubSeq(column_types, 1, n - 1), fallback)
             col_type    == column_types[n]
         IN  IF col_type = fallback
             THEN Append(new_columns,
                         fallback \o "_" \o ToString(CountContaining(new_columns, fallback) + 1))
             ELSE IF TypeCount(column_types, n - 1, col_type) > 0
                  THEN Append(new_columns, col_type \o "_" \o ToString(2))
                  ELSE Append(new_columns, col_type)

\* the renaming loop: new_columns for the classified types, in order
RECURSIVE RenameColumns(_, _)
RenameColumns(column_types, fallback) ==
    IF column_types = <<>> THEN <<>>
    ELSE LET n           == Len(column_types)
             new_columns == RenameColumns(SubSeq(column_types, 1, n - 1), fallback)
             col_type    == column_types[n]
         IN  IF col_type = fallback
             THEN Append(new_columns,
                         fallback \o "_" \o ToString(CountContaining(new_columns, fallback) + 1))
             ELSE IF TypeCount(column_types, n - 1, col_type) > 0
                  THEN Append(new_columns,
                              col_type \o "_" \o ToString(TypeCount(column_types, n, col_type)))
                  ELSE Append(new_columns, col_type)

\* the outcome of identify_and_rename_columns: the exception raised ("none"
\* when it returned), the table returned and the steps run, in order
Renamed(e, t, st) == [exc |-> e, df |-> t, stages |-> st]

\* a variant that classifies every column first and drops the identical ones last
identify_and_rename_columns_classify_first(t) ==
    LET column_types == [i \in 1..Len(t.columns) |-> identify_column(SeriesAt(t, i))] IN
    IF \E i \in 1..Len(t.columns) : column_types[i] = "AttributeError"
    THEN Renamed("AttributeError", EmptyDF, <<"identify_column">>)
    ELSE LET dropped == drop_sequential_identical_columns(
                            [t EXCEPT !.columns = RenameColumns(column_types, "more_info")])
         IN  Renamed(dropped.exc, dropped.df,
                     <<"identify_column", "rename_columns",
                       "drop_sequential_identical_columns">>)

\* yad_2_column_identifier.identify_and_rename_columns
identify_and_rename_columns(t) ==
    LET dropped == drop_sequential_identical_columns(t) IN
    IF dropped.exc # "none"
    THEN Renamed(dropped.exc, EmptyDF, <<"drop_sequential_identical_columns">>)
    ELSE LET d            == dropped.df
             column_types == [i \in 1..Len(d.columns) |-> identify_column(SeriesAt(d, i))]
         IN  IF \E i \in 1..Len(d.columns) : column_types[i] = "AttributeError"
             THEN Renamed("AttributeError", EmptyDF,
                          <<"drop_sequential_identical_columns", "identify_column">>)
             ELSE Renamed("none", [d EXCEPT !.columns = RenameColumns(column_types, "more_info")],
                          <<"drop_sequential_identical_columns", "identify_column",
                            "rename_columns">>)

\* madlan_column_identifier.identify_and_rename_columns
madlan_identify_and_rename_columns(t) ==
    LET dropped == madlan_drop_sequential_identical_columns(t) IN
    IF dropped.exc # "none"
    THEN Renamed(dropped.exc, EmptyDF, <<"drop_sequential_identical_columns">>)
    ELSE LET d            == dropped.df
             column_types == [i \in 1..Len(d.columns) |-> madlan_identify_column(SeriesAt(d, i))]
         IN  IF \E i \in 1..Len(d.columns) : column_types[i] = "AttributeError"
             THEN Renamed("AttributeError", EmptyDF,
                          <<"drop_sequential_identical_columns", "identify_column">>)
             ELSE Renamed("none",
                          [d EXCEPT !.columns = RenameColumns(column_types, "additional_info")],
                          <<"drop_sequential_identical_columns", "identify_column",
                            "rename_columns">>)

-----------------------------------------------------------------------------
(* Row cleaning shared by the loaders *)

\* df.dropna(how='all')
dropna_all(t) ==
    TakeRows(t, [r \in 1..Len(t.data) |-> \E i \in 1..Len(t.columns) : ~isna(t.data[r][i])])

\* df.drop_duplicates(): the first of every run of equal rows stays
drop_duplicates(t) ==
    TakeRows(t, [r \in 1..Len(t.data) |-> \A q \in 1..(r - 1) : t.data[q] # t.data[r]])

\* positional renaming: df.columns = names
SetColumns(t, names) == [t EXCEPT !.columns = names]

\* df[name] followed by .str: KeyError without the label, AttributeError when
\* the label selects several columns or a column that is not text
StrColumnError(t, name) ==
    IF ~HasCol(t, name) THEN "KeyError"
    ELSE IF Cardinality({i \in 1..Len(t.columns) : t.columns[i] = name}) > 1
         THEN "AttributeError"
    ELSE IF t.dtypes[ColIndex(t, name)] # "object" THEN "AttributeError"
    ELSE "none"

\* df[~df[name].str.contains('p1|p2', case=False, na=False)]
DropRowsContaining(t, name, pats) ==
    LET i == ColIndex(t, name)
    IN  TakeRows(t, [r \in 1..Len(t.data) |->
                        isna(t.data[r][i]) \/ ~ContainsAny(Lower(t.data[r][i]), pats)])

\* the outcome of _load_and_clean_data: the table returned, the stages run,
\* and the exception the except clause caught ("none" when the try block ended)
Loaded(t, st) == [df |-> t, stages |-> st, exc |-> "none"]
\* an except clause that swallows the exception without reporting it
CaughtWithoutMessage(e, st) == [df |-> EmptyDF, stages |-> st, exc |-> "none"]
Caught(e, st) == [df |-> EmptyDF, stages |-> st, exc |-> e]

-----------------------------------------------------------------------------
(* The signature-based loaders *)

Madlan9 == <<"link", "price", "rooms", "floor", "size", "adress", "price_change",
             "price_change", "exclusive">>
Madlan12 == <<"link", "image_src", "address", "rooms", "floor", "floor_info", "size", "area",
              "price", "developer_link", "developer_image", "exclusive">>
Madlan13 == <<"link", "image_src", "address", "rooms", "floor", "floor_info", "size", "area",
              "price", "developer_link", "developer_image", "project_name", "exclusive">>
Madlan14 == <<"link", "image_src", "address", "rooms", "floor", "floor_info", "size", "area",
              "price", "developer_link", "developer_image", "info", "project_name",
              "exclusive">>

Rental16 == <<"link", "delete_1", "image_src", "address", "rooms", "floor", "floor_info",
              "size", "area", "price", "developer_link", "image", "exclusive", "delete_2",
              "price_change_1", "price_change_2">>
Rental12 == <<"link", "image_src", "address", "rooms", "floor", "floor_info", "size", "area",
              "price", "developer_link", "image", "exclusive">>
Rental13 == <<"link", "image_src", "address", "rooms", "floor", "floor_info", "size", "area",
              "price", "developer_link", "image", "exclusive", "project_name">>

\* the column counts each signature-based loader has a branch for
MadlanSignatures == {Len(Madlan9), Len(Madlan12), Len(Madlan13), Len(Madlan14)}
RentalSignatures == {Len(Rental16), Len(Rental12), Len(Rental13)}

\* the names MadlanAnalyzer assigns for a column count (the labels stay as
\* read when no branch matches)
MadlanColumnsFor(t) ==
    LET n == Len(t.columns) IN
    IF n = Len(Madlan9) THEN Madlan9
    ELSE IF n = Len(Madlan12) THEN Madlan12
    ELSE IF n = Len(Madlan13) THEN Madlan13
    ELSE IF n = Len(Madlan14) THEN Madlan14
    ELSE t.columns

MadlanDropList(t) ==
    LET n == Len(t.columns) IN
    IF n = Len(Madlan12) \/ n = Len(Madlan13) THEN {"floor_info", "developer_image", "area"}
    ELSE IF n = Len(Madlan14) THEN {"floor_info", "developer_image", "area", "info"}
    ELSE {}

\* MadlanAnalyzer: the if/elif chain on len(df.columns)
MadlanAssignColumns(t) == DropCols(SetColumns(t, MadlanColumnsFor(t)), MadlanDropList(t))

\* MadlanAnalyzer._load_and_clean_data
MadlanLoad(file) ==
    LET r == read_csv(file) IN
    IF r.exc # "none" THEN Caught(r.exc, <<"read_csv">>)
    ELSE LET named == MadlanAssignColumns(r.df) IN
         IF StrColumnError(named, "link") # "none"
         THEN Caught(StrColumnError(named, "link"), <<"read_csv", "column_count_lookup">>)
         ELSE Loaded(drop_duplicates(DropRowsContaining(named, "link", {"projects"})),
                     <<"read_csv", "column_count_lookup", "filter_projects",
                       "drop_duplicates">>)

RentalColumnsFor(t) ==
    LET n == Len(t.columns) IN
    IF n = Len(Rental16) THEN Rental16
    ELSE IF n = Len(Rental12) THEN Rental12
    ELSE IF n = Len(Rental13) THEN Rental13
    ELSE t.columns

RentalDropList(t) ==
    LET n == Len(t.columns) IN
    IF n = Len(Rental16)
    THEN {"delete_1", "delete_2", "area", "image_src", "image", "floor_info"}
    ELSE IF n = Len(Rental12) THEN {"area", "image_src", "image", "floor_info"}
    ELSE IF n = Len(Rental13) THEN {"area", "image_src", "image", "floor_info", "project_name"}
    ELSE {}

\* RentalAnalyzer: the if/elif chain; a matched branch also cleans the rows
RentalAssignColumns(t) ==
    IF Len(t.columns) \in RentalSignatures
    THEN drop_duplicates(dropna_all(DropCols(SetColumns(t, RentalColumnsFor(t)),
                                             RentalDropList(t))))
    ELSE t

\* RentalAnalyzer._load_and_clean_data
RentalLoad(file) ==
    LET r == read_csv(file) IN
    IF r.exc # "none" THEN Caught(r.exc, <<"read_csv">>)
    ELSE LET named == RentalAssignColumns(r.df)
             st    == IF Len(r.df.columns) \in RentalSignatures
                      THEN <<"read_csv", "column_count_lookup", "dropna", "drop_duplicates">>
                      ELSE <<"read_csv", "column_count_lookup">>
         IN  IF StrColumnError(named, "link") # "none"
             THEN Caught(StrColumnError(named, "link"), st)
             ELSE Loaded(DropRowsContaining(named, "link", {"projects"}),
                         Append(st, "filter_projects"))

-----------------------------------------------------------------------------
(* The content-based loaders *)

\* Yad2Analyzer._load_and_clean_data
Yad2Load(file) ==
    LET r == read_csv(file) IN
    IF r.exc # "none" THEN Caught(r.exc, <<"read_csv">>)
    ELSE LET rows    == dropna_all(r.df)
             dropped == drop_sequential_identical_columns(rows)
             st1     == <<"read_csv", "dropna", "drop_sequential_identical_columns">>
         IN  IF dropped.exc # "none" THEN Caught(dropped.exc, st1)
             ELSE LET renamed == identify_and_rename_columns(dropped.df)
                      st2     == st1 \o renamed.stages
                  IN  IF renamed.exc # "none" THEN Caught(renamed.exc, st2)
                      ELSE Loaded(drop_duplicates(DropCols(renamed.df,
                                                           {"img_src", "link2", "where"})),
                                  st2 \o <<"drop_columns", "drop_duplicates">>)

\* Yad2RentalAnalyzer._load_and_clean_data
Yad2RentalLoad(file) ==
    LET r == read_csv(file) IN
    IF r.exc # "none" THEN Caught(r.exc, <<"read_csv">>)
    ELSE LET renamed == identify_and_rename_columns(r.df)
             st      == <<"read_csv">> \o renamed.stages
         IN  IF renamed.exc # "none" THEN Caught(renamed.exc, st)
             ELSE LET clean == drop_duplicates(dropna_all(renamed.df)) IN
                  IF HasCol(clean, "info")
                  THEN Loaded(DropRowsContaining(clean, "info", {"מסחרי", "משרד"}),
                              st \o <<"dropna", "drop_duplicates", "filter_commercial">>)
                  ELSE Loaded(clean, st \o <<"dropna", "drop_duplicates">>)

-----------------------------------------------------------------------------
(* Numbers: a numeric cell is a fraction [n, d] in lowest terms; d = 0 is the *)
(* missing value (None / NaN) of a numeric column.                            *)

None == [n |-> 0, d |-> 0]

notna(x) == x.d # 0

RECURSIVE GCD(_, _)
GCD(a, b) == IF b = 0 THEN a ELSE GCD(b, a % b)

Rat(n, d) == LET g == GCD(IF n < 0 THEN -n ELSE n, d) IN [n |-> n \div g, d |-> d \div g]

Whole(n) == [n |-> n, d |-> 1]

Less(x, y) == x.n * y.d < y.n * x.d

Div(x, y) == Rat(x.n * y.d, x.d * y.n)

RECURSIVE Pow10(_)
Pow10(k) == IF k = 0 THEN 1 ELSE 10 * Pow10(k - 1)

DigitVal(c) == CHOOSE v \in 0..9 : ToString(v) = c

\* int(s) for a text of digits
RECURSIVE ToInt(_)
ToInt(s) == IF s = "" THEN 0 ELSE 10 * ToInt(SubSeq(s, 1, Len(s) - 1)) + DigitVal(Char(s, Len(s)))

\* float(s) for a decimal literal
ToFloat(s) ==
    Rat(ToInt(DigitsOf(s)), Pow10(IF Contains(s, ".") THEN Len(s) - PointAt(s) ELSE 0))

\* Series.round(2): to the nearest hundredth, ties to the even one
Round2(x) ==
    LET q  == (x.n * 100) \div x.d
        r2 == 2 * ((x.n * 100) % x.d)
    IN  Rat(IF r2 > x.d \/ (r2 = x.d /\ q % 2 = 1) THEN q + 1 ELSE q, 100)

\* pd.to_numeric(digits, errors='coerce') of a text of digits
ToNumeric(digits) == IF digits = "" THEN None ELSE Whole(ToInt(digits))

\* df[name] = values: a new last column, or the column of that label replaced
SetColumn(t, name, dtype, values) ==
    IF HasCol(t, name)
    THEN LET i == ColIndex(t, name) IN
         [columns |-> t.columns,
          dtypes  |-> [t.dtypes EXCEPT ![i] = dtype],
          data    |-> [r \in 1..Len(t.data) |-> [t.data[r] EXCEPT ![i] = values[r]]]]
    ELSE [columns |-> Append(t.columns, name),
          dtypes  |-> Append(t.dtypes, dtype),
          data    |-> [r \in 1..Len(t.data) |-> Append(t.data[r], values[r])]]

\* the value of field name in row r
Field(t, r, name) == t.data[r][ColIndex(t, name)]

-----------------------------------------------------------------------------
(* Metric extraction *)

\* the end of the run of digits that starts at i
RunEnd(s, i) ==
    CHOOSE e \in i..Len(s) :
        /\ \A k \in i..e : isdigit(Char(s, k))
        /\ (e = Len(s) \/ ~isdigit(Char(s, e + 1)))

\* \s*(?:w1|w2|...) matches right after position e
FollowedBy(s, e, words) ==
    \E w \in words : \E j \in (e + 1)..(Len(s) - Len(w) + 1) :
        /\ \A k \in (e + 1)..(j - 1) : Char(s, k) = " "
        /\ SubSeq(s, j, j + Len(w) - 1) = w

\* the end of group 1 of a match of (\d+)\s*(?:words) starting at i, or 0
IntMatchEnd(s, i, words) ==
    IF isdigit(Char(s, i)) /\ FollowedBy(s, RunEnd(s, i), words) THEN RunEnd(s, i) ELSE 0

\* the end of group 1 of a match of (\d+(?:\.\d+)?)\s*(?:words) starting at i, or 0
DecimalMatchEnd(s, i, words) ==
    IF ~isdigit(Char(s, i)) THEN 0
    ELSE LET e1 == RunEnd(s, i)
             hasFrac == e1 + 2 <= Len(s) /\ Char(s, e1 + 1) = "." /\ isdigit(Char(s, e1 + 2))
         IN  IF hasFrac /\ FollowedBy(s, RunEnd(s, e1 + 2), words) THEN RunEnd(s, e1 + 2)
             ELSE IF FollowedBy(s, e1, words) THEN e1
             ELSE 0

SizeUnits == {"מ\"ר", "מטר", "מ״ר"}

\* MadlanAnalyzer._calculate_price_per_meter.extract_size
extract_size(size_str) ==
    IF isna(size_str) THEN None
    ELSE LET numeric_str == DigitsAndPointsOf(size_str) IN
         IF IsNumberText(numeric_str) THEN ToFloat(numeric_str) ELSE None

\* Yad2Analyzer._calculate_price_per_meter.extract_size: re.search, first match
yad2_extract_size(info_text) ==
    IF isna(info_text) THEN None
    ELSE LET starts == {i \in 1..Len(info_text) : IntMatchEnd(info_text, i, SizeUnits) # 0} IN
         IF starts = {} THEN None
         ELSE LET i == CHOOSE a \in starts : \A b \in starts : a <= b
              IN  ToFloat(SubSeq(info_text, i, IntMatchEnd(info_text, i, SizeUnits)))

\* the mask of _calculate_price_per_meter
PriceAndSizeUsable(price, size) == notna(size) /\ size.n > 0 /\ notna(price)

\* a variant that counts a missing price as 0 (a fillna(0) on price_numeric)
PricePerMeterMissingPriceAsZero(price, size, rounded) ==
    IF notna(size) /\ size.n > 0
    THEN LET p == IF notna(price) THEN price ELSE Whole(0) IN
         (IF rounded THEN Round2(Div(p, size)) ELSE Div(p, size))
    ELSE None

\* the price_per_meter cell of a row
PricePerMeter(price, size, rounded) ==
    IF PriceAndSizeUsable(price, size)
    THEN (IF rounded THEN Round2(Div(price, size)) ELSE Div(price, size))
    ELSE None

\* a variant that keeps only the listings whose size could be read (a dropna
\* on size_numeric)
WithPriceColumnsOfSizedRows(t, sizes, rounded) ==
    LET rows   == 1..Len(t.data)
        prices == [r \in rows |-> ToNumeric(DigitsOf(Field(t, r, "price")))]
        t1 == SetColumn(t, "price_numeric", "float64", prices)
        t2 == SetColumn(t1, "size_numeric", "float64", sizes)
        t3 == SetColumn(t2, "price_per_meter", "object",
                        [r \in rows |-> PricePerMeter(prices[r], sizes[r], rounded)])
    IN  TakeRows(t3, [r \in rows |-> notna(sizes[r])])

\* the three derived columns, given the size of every row
WithPriceColumns(t, sizes, rounded) ==
    LET rows   == 1..Len(t.data)
        prices == [r \in rows |-> ToNumeric(DigitsOf(Field(t, r, "price")))]
        t1 == SetColumn(t, "price_per_meter", "object", [r \in rows |-> None])
        t2 == SetColumn(t1, "price_numeric", "float64", prices)
        t3 == SetColumn(t2, "size_numeric", "float64", sizes)
    IN  SetColumn(t3, "price_per_meter", "object",
                  [r \in rows |-> PricePerMeter(prices[r], sizes[r], rounded)])

\* MadlanAnalyzer._calculate_price_per_meter; a missing column raises KeyError
madlan_calculate_price_per_meter(t) ==
    IF ~HasCol(t, "price") \/ ~HasCol(t, "size") THEN Raise("KeyError")
    ELSE Ok(WithPriceColumns(t, [r \in 1..Len(t.data) |-> extract_size(Field(t, r, "size"))],
                             FALSE))

\* Yad2Analyzer._calculate_price_per_meter
yad2_calculate_price_per_meter(t) ==
    IF ~HasCol(t, "price") \/ ~HasCol(t, "info") THEN Raise("KeyError")
    ELSE Ok(WithPriceColumns(t,
                             [r \in 1..Len(t.data) |-> yad2_extract_size(Field(t, r, "info"))],
                             TRUE))

\* numeric_chars.replace('.', '', count): the first count points removed
RECURSIVE RemovePoints(_, _)
RemovePoints(s, count) ==
    IF s = "" \/ count = 0 THEN s
    ELSE IF Char(s, 1) = "." THEN RemovePoints(SubSeq(s, 2, Len(s)), count - 1)
    ELSE Char(s, 1) \o RemovePoints(SubSeq(s, 2, Len(s)), count)

\* MadlanAnalyzer.calculate_indicators.extract_numeric_rooms
extract_numeric_rooms(x) ==
    IF isna(x) THEN None
    ELSE LET chars == DigitsAndPointsOf(x)
             numeric_chars == IF CountPoints(chars) > 1
                              THEN RemovePoints(chars, CountPoints(chars) - 1) ELSE chars
         IN  IF IsNumberText(numeric_chars) THEN ToFloat(numeric_chars) ELSE None

\* Yad2Analyzer.calculate_indicators.extract_rooms: re.search, first match
extract_rooms(info_text) ==
    IF isna(info_text) THEN None
    ELSE LET starts == {i \in 1..Len(info_text) :
                            DecimalMatchEnd(info_text, i, {RoomsWord}) # 0} IN
         IF starts = {} THEN None
         ELSE LET i == CHOOSE a \in starts : \A b \in starts : a <= b
              IN  ToFloat(SubSeq(info_text, i, DecimalMatchEnd(info_text, i, {RoomsWord})))

\* a variant whose upper bound of the first range is inclusive (<= 75)
OptimalUpToBoundary(size, rooms) ==
    /\ notna(size) /\ notna(rooms)
    /\ \/ Less(Whole(60), size) /\ ~Less(Whole(75), size) /\ rooms = Whole(2)
       \/ Less(Whole(75), size) /\ Less(size, Whole(90)) /\ rooms \in {Whole(2), Whole(3)}

\* condition1 | condition2 of calculate_indicators
Optimal(size, rooms) ==
    /\ notna(size) /\ notna(rooms)
    /\ \/ Less(Whole(60), size) /\ Less(size, Whole(75)) /\ rooms = Whole(2)
       \/ Less(Whole(75), size) /\ Less(size, Whole(90)) /\ rooms \in {Whole(2), Whole(3)}

WithIndicators(t, rooms) ==
    LET rows == 1..Len(t.data)
        t1 == SetColumn(t, "rooms_numeric", "float64", rooms)
    IN  SetColumn(t1, "size_rooms_indicator", "object",
                  [r \in rows |-> IF Optimal(Field(t, r, "size_numeric"), rooms[r])
                                  THEN "optimal" ELSE "regular"])

\* MadlanAnalyzer.calculate_indicators
madlan_calculate_indicators(t) ==
    IF ~HasCol(t, "rooms") THEN Raise("KeyError")
    ELSE Ok(WithIndicators(t, [r \in 1..Len(t.data) |->
                                  extract_numeric_rooms(Field(t, r, "rooms"))]))

\* Yad2Analyzer.calculate_indicators
yad2_calculate_indicators(t) ==
    IF ~HasCol(t, "info") THEN Raise("KeyError")
    ELSE Ok(WithIndicators(t, [r \in 1..Len(t.data) |-> extract_rooms(Field(t, r, "info"))]))

\* next((col for col in df_copy.columns if 'price' in col), None): 0 for None
PriceCol(t) ==
    LET hits == {i \in 1..Len(t.columns) : Contains(t.columns[i], "price")} IN
    IF hits = {} THEN 0 ELSE CHOOSE i \in hits : \A j \in hits : i <= j

\* RentalAnalyzer._clean_price_values and Yad2RentalAnalyzer._clean_price_values
clean_price_values(t) ==
    IF PriceCol(t) = 0 THEN Ok(t)
    ELSE Ok(SetColumn(t, "price_numeric", "float64",
                      [r \in 1..Len(t.data) |-> ToNumeric(DigitsOf(t.data[r][PriceCol(t)]))]))

-----------------------------------------------------------------------------
(* Text and numbers of the analyses *)

\* the characters of the texts, in code point order (the order of str <)
CodePoints ==
    " \"%,-./0123456789:ABCDEFGHIJKLMNOPQRSTUVWXYZ_abcdefghijklmnopqrstuvwxyz|אבגדהוזחטיךכלםמןנסעףפץצקרשת״₪"

CharRank(c) == CHOOSE i \in 1..Len(CodePoints) : Char(CodePoints, i) = c

\* a < b for two str values
RECURSIVE TextLess(_, _)
TextLess(a, b) ==
    IF b = "" THEN FALSE
    ELSE IF a = "" THEN TRUE
    ELSE IF Char(a, 1) = Char(b, 1) THEN TextLess(SubSeq(a, 2, Len(a)), SubSeq(b, 2, Len(b)))
    ELSE CharRank(Char(a, 1)) < CharRank(Char(b, 1))

\* sorted(keys): the group keys in the order groupby iterates them
RECURSIVE SortedTexts(_)
SortedTexts(keys) ==
    IF keys = {} THEN <<>>
    ELSE LET first == CHOOSE k \in keys : \A other \in keys \ {k} : TextLess(k, other)
         IN  <<first>> \o SortedTexts(keys \ {first})

\* ' '.join(s.split()): blanks at the ends go, runs of blanks become one
RECURSIVE JoinSplit(_)
JoinSplit(s) ==
    IF s = "" THEN ""
    ELSE IF Char(s, 1) = " " THEN JoinSplit(SubSeq(s, 2, Len(s)))
    ELSE LET e    == CHOOSE k \in 1..Len(s) :
                        /\ \A i \in 1..k : Char(s, i) # " "
                        /\ (k = Len(s) \/ Char(s, k + 1) = " ")
             rest == JoinSplit(SubSeq(s, e + 1, Len(s)))
         IN  SubSeq(s, 1, e) \o (IF rest = "" THEN "" ELSE " " \o rest)

\* ''.join(char for char in s if not char.isdigit())
RECURSIVE NonDigitsOf(_)
NonDigitsOf(s) ==
    IF s = "" THEN ""
    ELSE (IF isdigit(Char(s, 1)) THEN "" ELSE Char(s, 1)) \o NonDigitsOf(SubSeq(s, 2, Len(s)))

\* s.split(',')[0]
BeforeComma(s) ==
    IF Contains(s, ",") THEN SubSeq(s, 1, (CHOOSE i \in 1..Len(s) :
                                            /\ Char(s, i) = ","
                                            /\ \A j \in 1..(i - 1) : Char(s, j) # ",") - 1)
    ELSE s

Add(x, y) == Rat(x.n * y.d + y.n * x.d, x.d * y.d)

Sub(x, y) == Rat(x.n * y.d - y.n * x.d, x.d * y.d)

\* x / y * 100 for y > 0
Percent(x, y) == Rat(x.n * y.d * 100, x.d * y.n)

RECURSIVE Sum(_)
Sum(values) == IF values = <<>> THEN Whole(0) ELSE Add(Head(values), Sum(Tail(values)))

\* Series.mean(): the mean of the values that are not missing, NaN without any
Mean(values) ==
    LET present == SelectSeq(values, notna) IN
    IF present = <<>> THEN None
    ELSE Rat(Sum(present).n, Sum(present).d * Len(present))

\* round(x, 1): to the nearest tenth, ties to the even one
Round1(x) ==
    LET q  == (x.n * 10) \div x.d
        r2 == 2 * ((x.n * 10) % x.d)
    IN  Rat(IF r2 > x.d \/ (r2 = x.d /\ q % 2 = 1) THEN q + 1 ELSE q, 10)

\* f"{round(percentage, 1)}%" for a negative percentage: "-50.0%", "-0.0%"
FormatPercentage(x) ==
    LET tenths == -(Round1(x).n * (10 \div Round1(x).d))
    IN  "-" \o ToString(tenths \div 10) \o "." \o ToString(tenths % 10) \o "%"

RECURSIVE Commas(_)
Commas(digits) ==
    IF Len(digits) <= 3 THEN digits
    ELSE Commas(SubSeq(digits, 1, Len(digits) - 3)) \o ","
         \o SubSeq(digits, Len(digits) - 2, Len(digits))

\* f"₪{x:,.0f}": the nearest whole number with thousands separators
FormatPrice(x) ==
    IF ~notna(x) THEN "₪nan"
    ELSE LET q  == x.n \div x.d
             r2 == 2 * (x.n % x.d)
         IN  "₪" \o Commas(ToString(IF r2 > x.d \/ (r2 = x.d /\ q % 2 = 1) THEN q + 1 ELSE q))

-----------------------------------------------------------------------------
(* The analyses: a call returns [exc, rows, df], the exception it raised    *)
(* ("none" when it returned), the rows of the table it returned, and the    *)
(* table self.df holds afterwards                                           *)

Returned(rows, t) == [exc |-> "none", rows |-> rows, df |-> t]
Raised(e, t) == [exc |-> e, rows |-> <<>>, df |-> t]

\* the rows of the groups, group after group in key order, table order inside
RECURSIVE RowsOfGroups(_, _)
RowsOfGroups(order, keys) ==
    IF order = <<>> THEN <<>>
    ELSE SelectIdx([r \in 1..Len(keys) |-> keys[r] = Head(order)], 1, Len(keys))
         \o RowsOfGroups(Tail(order), keys)

\* df.groupby(key).filter(lambda x: len(x) > 1), iterated with groupby(key):
\* a row with a null key is in no group
GroupedRows(keys) ==
    RowsOfGroups(SortedTexts({k \in {keys[r] : r \in 1..Len(keys)} :
                                 /\ ~isna(k)
                                 /\ Cardinality({r \in 1..Len(keys) : keys[r] = k}) > 1}),
                 keys)

\* MadlanAnalyzer.find_same_address
madlan_find_same_address(t) ==
    IF ~HasCol(t, "address") THEN Raised("KeyError", t)
    ELSE LET idx == GroupedRows(ColumnAt(t, ColIndex(t, "address"))) IN
         IF idx # <<>> /\ ~HasCol(t, "link") THEN Raised("KeyError", t)
         ELSE Returned([k \in 1..Len(idx) |->
                           [Address |-> Field(t, idx[k], "address"),
                            Link    |-> Field(t, idx[k], "link")]], t)

\* Yad2Analyzer.find_same_address
yad2_find_same_address(t) ==
    IF ~HasCol(t, "address") THEN Raised("KeyError", t)
    ELSE LET idx == GroupedRows(ColumnAt(t, ColIndex(t, "address"))) IN
         IF idx # <<>> /\ ~HasCol(t, "link") THEN Raised("KeyError", t)
         ELSE Returned([k \in 1..Len(idx) |->
                           [Address |-> Field(t, idx[k], "address"),
                            Link    |-> Field(t, idx[k], "link")]], t)

\* RentalAnalyzer.find_same_address
rental_find_same_address(t) ==
    IF ~HasCol(t, "address") THEN Raised("KeyError", t)
    ELSE LET idx == GroupedRows(ColumnAt(t, ColIndex(t, "address"))) IN
         IF idx # <<>> /\ (~HasCol(t, "price_numeric") \/ ~HasCol(t, "link"))
         THEN Raised("KeyError", t)
         ELSE Returned([k \in 1..Len(idx) |->
                           [Address |-> Field(t, idx[k], "address"),
                            Price   |-> FormatPrice(Field(t, idx[k], "price_numeric")),
                            Link    |-> Field(t, idx[k], "link")]], t)

\* next((col for col in self.df.columns if col in ['address', 'where']), None)
AddressCol(t) ==
    LET hits == {i \in 1..Len(t.columns) : t.columns[i] \in {"address", "where"}} IN
    IF hits = {} THEN 0 ELSE CHOOSE i \in hits : \A j \in hits : i <= j

\* next((col for col in self.df.columns if 'link' in col), None)
LinkCol(t) ==
    LET hits == {i \in 1..Len(t.columns) : Contains(t.columns[i], "link")} IN
    IF hits = {} THEN 0 ELSE CHOOSE i \in hits : \A j \in hits : i <= j

\* Yad2RentalAnalyzer.find_same_address
yad2_rental_find_same_address(t) ==
    IF AddressCol(t) = 0 THEN Returned(<<>>, t)
    ELSE LET idx == GroupedRows(ColumnAt(t, AddressCol(t))) IN
         IF idx # <<>> /\ ~HasCol(t, "price_numeric") THEN Raised("KeyError", t)
         ELSE Returned([k \in 1..Len(idx) |->
                           IF LinkCol(t) # 0
                           THEN [Address |-> t.data[idx[k]][AddressCol(t)],
                                 Price   |-> FormatPrice(Field(t, idx[k], "price_numeric")),
                                 Link    |-> t.data[idx[k]][LinkCol(t)]]
                           ELSE [Address |-> t.data[idx[k]][AddressCol(t)],
                                 Price   |-> FormatPrice(Field(t, idx[k], "price_numeric"))]],
                       t)

\* extract_street_name of the sale analyzers; None (here NaN) for a value that
\* is not a str: a missing cell, or any cell of a numeric column
extract_street_name(dtype, address) ==
    IF dtype # "object" \/ isna(address) THEN NaN
    ELSE JoinSplit(NonDigitsOf(address))

\* extract_street_name of the rental analyzers
rental_extract_street_name(dtype, address) ==
    IF dtype # "object" \/ isna(address) THEN NaN
    ELSE JoinSplit(BeforeComma(address))

\* the street_name column of df_streets
SaleStreetNames(t, i) ==
    [r \in 1..Len(t.data) |-> extract_street_name(t.dtypes[i], t.data[r][i])]

RentalStreetNames(t, i) ==
    [r \in 1..Len(t.data) |-> rental_extract_street_name(t.dtypes[i], t.data[r][i])]

\* MadlanAnalyzer.find_same_street
madlan_find_same_street(t) ==
    IF ~HasCol(t, "address") THEN Raised("KeyError", t)
    ELSE LET names == SaleStreetNames(t, ColIndex(t, "address"))
             idx   == GroupedRows(names)
         IN  IF idx # <<>> /\ ~HasCol(t, "link") THEN Raised("KeyError", t)
             ELSE Returned([k \in 1..Len(idx) |->
                               [Street       |-> names[idx[k]],
                                Full_Address |-> Field(t, idx[k], "address"),
                                Link         |-> Field(t, idx[k], "link")]], t)

\* Yad2Analyzer.find_same_street
yad2_find_same_street(t) ==
    IF ~HasCol(t, "address") THEN Raised("KeyError", t)
    ELSE LET names == SaleStreetNames(t, ColIndex(t, "address"))
             idx   == GroupedRows(names)
         IN  IF idx # <<>> /\ ~HasCol(t, "link") THEN Raised("KeyError", t)
             ELSE Returned([k \in 1..Len(idx) |->
                               [Street       |-> names[idx[k]],
                                Full_Address |-> Field(t, idx[k], "address"),
                                Link         |-> Field(t, idx[k], "link")]], t)

\* RentalAnalyzer.find_same_street
rental_find_same_street(t) ==
    IF ~HasCol(t, "address") THEN Raised("KeyError", t)
    ELSE LET names == RentalStreetNames(t, ColIndex(t, "address"))
             idx   == GroupedRows(names)
         IN  IF idx # <<>> /\ (~HasCol(t, "price_numeric") \/ ~HasCol(t, "link"))
             THEN Raised("KeyError", t)
             ELSE Returned([k \in 1..Len(idx) |->
                               [Street       |-> names[idx[k]],
                                Full_Address |-> Field(t, idx[k], "address"),
                                Price        |-> FormatPrice(Field(t, idx[k], "price_numeric")),
                                Link         |-> Field(t, idx[k], "link")]], t)

\* Yad2RentalAnalyzer.find_same_street
yad2_rental_find_same_street(t) ==
    IF AddressCol(t) = 0 THEN Returned(<<>>, t)
    ELSE LET names == RentalStreetNames(t, AddressCol(t))
             idx   == GroupedRows(names)
         IN  IF idx # <<>> /\ ~HasCol(t, "price_numeric") THEN Raised("KeyError", t)
             ELSE Returned([k \in 1..Len(idx) |->
                               IF LinkCol(t) # 0
                               THEN [Street       |-> names[idx[k]],
                                     Full_Address |-> t.data[idx[k]][AddressCol(t)],
                                     Price        |-> FormatPrice(Field(t, idx[k],
                                                                        "price_numeric")),
                                     Link         |-> t.data[idx[k]][LinkCol(t)]]
                               ELSE [Street       |-> names[idx[k]],
                                     Full_Address |-> t.data[idx[k]][AddressCol(t)],
                                     Price        |-> FormatPrice(Field(t, idx[k],
                                                                        "price_numeric"))]],
                           t)

\* the difference also taken where the value equals the average
DifferenceFromAvgNotAbove(values) ==
    LET avg == Mean(values) IN
    [r \in 1..Len(values) |->
        IF notna(values[r]) /\ notna(avg) /\ ~Less(avg, values[r])
        THEN Round2(Sub(values[r], avg)) ELSE None]

\* the price_difference_from_avg cell of every row after the loop of
\* find_cheaper_properties: round(value - average, 2) where it is negative
DifferenceFromAvg(values) ==
    LET avg == Mean(values) IN
    [r \in 1..Len(values) |->
        IF notna(values[r]) /\ notna(avg) /\ Less(values[r], avg)
        THEN Round2(Sub(values[r], avg)) ELSE None]

\* the price_difference_percentage cell of every row (NaN for None)
DifferencePercentage(values) ==
    LET avg == Mean(values) IN
    [r \in 1..Len(values) |->
        IF notna(values[r]) /\ notna(avg) /\ Less(values[r], avg)
        THEN FormatPercentage(Percent(Sub(values[r], avg), avg)) ELSE NaN]

\* self.df after the loop
WithDifferences(t, values) ==
    SetColumn(SetColumn(t, "price_difference_from_avg", "object", DifferenceFromAvg(values)),
              "price_difference_percentage", "object", DifferencePercentage(values))

\* sort_values: the row positions idx ascending by difference, equal
\* differences in table order
RECURSIVE SortedByDifference(_, _)
SortedByDifference(idx, diffs) ==
    IF idx = <<>> THEN <<>>
    ELSE LET m == CHOOSE i \in 1..Len(idx) :
                     /\ \A j \in 1..Len(idx) : ~Less(diffs[idx[j]], diffs[idx[i]])
                     /\ \A j \in 1..(i - 1) : Less(diffs[idx[i]], diffs[idx[j]])
         IN  <<idx[m]>> \o SortedByDifference(SubSeq(idx, 1, m - 1)
                                               \o SubSeq(idx, m + 1, Len(idx)), diffs)

\* self.df[pd.notna(self.df['price_difference_from_avg'])][names]
\*     .sort_values('price_difference_from_avg'), a row as a record
CheaperRows(t, names) ==
    LET diffs == ColumnAt(t, ColIndex(t, "price_difference_from_avg"))
        idx   == SortedByDifference(SelectIdx([r \in 1..Len(diffs) |-> notna(diffs[r])],
                                              1, Len(diffs)), diffs)
    IN  [k \in 1..Len(idx) |-> [c \in names |-> Field(t, idx[k], c)]]

\* MadlanAnalyzer.find_cheaper_properties
madlan_find_cheaper_properties(t) ==
    IF ~HasCol(t, "price_per_meter") THEN Raised("KeyError", t)
    ELSE LET t2 == WithDifferences(t, ColumnAt(t, ColIndex(t, "price_per_meter"))) IN
         IF ~HasCol(t2, "address") \/ ~HasCol(t2, "link") THEN Raised("KeyError", t2)
         ELSE Returned(CheaperRows(t2, {"address", "price_per_meter",
                                        "price_difference_from_avg",
                                        "price_difference_percentage", "link"}), t2)

\* Yad2Analyzer.find_cheaper_properties
yad2_find_cheaper_properties(t) ==
    IF ~HasCol(t, "price_per_meter") THEN Raised("KeyError", t)
    ELSE LET t2 == WithDifferences(t, ColumnAt(t, ColIndex(t, "price_per_meter"))) IN
         IF ~HasCol(t2, "address") \/ ~HasCol(t2, "link") THEN Raised("KeyError", t2)
         ELSE Returned(CheaperRows(t2, {"address", "price_per_meter",
                                        "price_difference_from_avg",
                                        "price_difference_percentage", "link"}), t2)

\* RentalAnalyzer.find_cheaper_properties
rental_find_cheaper_properties(t) ==
    IF ~HasCol(t, "price_numeric") THEN Raised("KeyError", t)
    ELSE LET t2 == WithDifferences(t, ColumnAt(t, ColIndex(t, "price_numeric"))) IN
         IF ~HasCol(t2, "address") \/ ~HasCol(t2, "link") THEN Raised("KeyError", t2)
         ELSE Returned(CheaperRows(t2, {"address", "price_numeric",
                                        "price_difference_from_avg",
                                        "price_difference_percentage", "link"}), t2)

\* Yad2RentalAnalyzer.find_cheaper_properties
yad2_rental_find_cheaper_properties(t) ==
    IF ~HasCol(t, "price_numeric") THEN Returned(<<>>, t)
    ELSE LET t2    == WithDifferences(t, ColumnAt(t, ColIndex(t, "price_numeric")))
             place == IF HasCol(t2, "address") THEN "address" ELSE "where"
             shown == {place, "price_numeric", "price_difference_from_avg",
                       "price_difference_percentage"}
                      \cup (IF LinkCol(t2) # 0 THEN {t2.columns[LinkCol(t2)]} ELSE {})
         IN  IF ~HasCol(t2, place) THEN Raised("KeyError", t2)
             ELSE Returned(CheaperRows(t2, shown), t2)

\* s.strip()
RECURSIVE Strip(_)
Strip(s) ==
    IF s = "" THEN ""
    ELSE IF Char(s, 1) = " " THEN Strip(SubSeq(s, 2, Len(s)))
    ELSE IF Char(s, Len(s)) = " " THEN Strip(SubSeq(s, 1, Len(s) - 1))
    ELSE s

\* s.split(',')[-1]
AfterLastComma(s) ==
    IF Contains(s, ",") THEN SubSeq(s, (CHOOSE i \in 1..Len(s) :
                                           /\ Char(s, i) = ","
                                           /\ \A j \in (i + 1)..Len(s) : Char(s, j) # ",") + 1,
                                    Len(s))
    ELSE s

\* extract_area of the rental analyzers
extract_area(address) ==
    IF isna(address) THEN "Unknown" ELSE Strip(AfterLastComma(address))

\* Series.min() and Series.max() of the values that are not missing
MinOf(values) ==
    LET present == SelectSeq(values, notna) IN
    IF present = <<>> THEN None
    ELSE present[CHOOSE i \in 1..Len(present) :
                    \A j \in 1..Len(present) : ~Less(present[j], present[i])]

MaxOf(values) ==
    LET present == SelectSeq(values, notna) IN
    IF present = <<>> THEN None
    ELSE present[CHOOSE i \in 1..Len(present) :
                    \A j \in 1..Len(present) : ~Less(present[i], present[j])]

\* round(2) of an aggregate that may be NaN
RoundAggregate(x) == IF notna(x) THEN Round2(x) ELSE None

\* groupby('area').agg({'price_numeric': ['mean', 'min', 'max', 'count']}).round(2)
AreaRows(areas, prices) ==
    LET keys == SortedTexts({areas[r] : r \in 1..Len(areas)}) IN
    [k \in 1..Len(keys) |->
        LET of == SelectSeq([r \in 1..Len(areas) |-> <<areas[r], prices[r]>>],
                            LAMBDA p : p[1] = keys[k])
            values == [i \in 1..Len(of) |-> of[i][2]]
        IN  [area  |-> keys[k],
             mean  |-> RoundAggregate(Mean(values)),
             min   |-> RoundAggregate(MinOf(values)),
             max   |-> RoundAggregate(MaxOf(values)),
             count |-> Len(SelectSeq(values, notna))]]

\* self.df['area'] = self.df[location].apply(extract_area), then the aggregation
WithArea(t, i) ==
    SetColumn(t, "area", "object", [r \in 1..Len(t.data) |-> extract_area(t.data[r][i])])

\* RentalAnalyzer.analyze_by_area
rental_analyze_by_area(t) ==
    IF ~HasCol(t, "address") THEN Raised("KeyError", t)
    ELSE LET t2 == WithArea(t, ColIndex(t, "address")) IN
         IF ~HasCol(t2, "price_numeric") THEN Raised("KeyError", t2)
         ELSE Returned(AreaRows(ColumnAt(t2, ColIndex(t2, "area")),
                                ColumnAt(t2, ColIndex(t2, "price_numeric"))), t2)

\* next((col for col in self.df.columns if col in ['where', 'address']), None)
LocationCol(t) ==
    LET hits == {i \in 1..Len(t.columns) : t.columns[i] \in {"where", "address"}} IN
    IF hits = {} THEN 0 ELSE CHOOSE i \in hits : \A j \in hits : i <= j

\* Yad2RentalAnalyzer.analyze_by_area
yad2_rental_analyze_by_area(t) ==
    IF LocationCol(t) = 0 THEN Returned(<<>>, t)
    ELSE LET t2 == WithArea(t, LocationCol(t)) IN
         IF ~HasCol(t2, "price_numeric") THEN Raised("KeyError", t2)
         ELSE Returned(AreaRows(ColumnAt(t2, ColIndex(t2, "area")),
                                ColumnAt(t2, ColIndex(t2, "price_numeric"))), t2)

\* columns_to_display of RentalAnalyzer.get_display_data
RentalDisplayList ==
    <<"link", "address", "price", "info", "floor", "size", "developer_link", "exclusive",
      "more_info_1", "price_change", "more_info_2">>

\* the keys of columns_to_display of Yad2RentalAnalyzer.get_display_data
Yad2RentalDisplayList ==
    <<"link", "address", "price_numeric", "info", "price_change", "more_info_1",
      "more_info_2">>

\* columns_to_display[col]: the label a field is shown under
Yad2RentalLabel(col) ==
    IF col = "link" THEN "לינק"
    ELSE IF col = "address" THEN "כתובת"
    ELSE IF col = "price_numeric" THEN "מחיר"
    ELSE IF col = "info" THEN "פרטים"
    ELSE IF col = "price_change" THEN " שינויי מחיר"
    ELSE IF col = "more_info_1" THEN "מידע נוסף 1"
    ELSE "מידע נוסף 2"

\* a variant that walks the columns of the table instead of the display list
AvailableColumnsInTableOrder(t, list) ==
    SelectSeq(t.columns, LAMBDA col : \E i \in 1..Len(list) : list[i] = col)

\* [col for col in columns_to_display if col in display_df.columns]
AvailableColumns(t, list) == SelectSeq(list, LAMBDA col : HasCol(t, col))

\* fillna(''): the cell of a field, empty text for a missing one
Fillna(name, x) ==
    IF name = "price_numeric" THEN (IF notna(x) THEN x ELSE "")
    ELSE IF isna(x) THEN "" ELSE x

\* display_df[available_columns].fillna('')
DisplayRows(t, available) ==
    [r \in 1..Len(t.data) |->
        [i \in 1..Len(available) |-> Fillna(available[i], Field(t, r, available[i]))]]

\* RentalAnalyzer.get_display_data: the table it returns
rental_get_display_data(t) ==
    LET available == AvailableColumns(t, RentalDisplayList) IN
    [columns |-> available, data |-> DisplayRows(t, available)]

\* Yad2RentalAnalyzer.get_display_data: the fields renamed to their labels (no
\* column is named 'Price', so the price formatting never runs)
yad2_rental_get_display_data(t) ==
    LET available == AvailableColumns(t, Yad2RentalDisplayList) IN
    [columns |-> [i \in 1..Len(available) |-> Yad2RentalLabel(available[i])],
     data    |-> DisplayRows(t, available)]

-----------------------------------------------------------------------------
(* Drivers of the column functions: each applies one function of the two  *)
(* identifier modules to inputs drawn from bounded sets.                   *)

NoFile == [status |-> FileMissing, header |-> <<>>, lines |-> <<>>]

\* main() before anything is chosen: the landing page, no source
NoSession == [page |-> "landing", source |-> "none"]

Idle == /\ df = EmptyDF
        /\ stages = <<>>
        /\ error = <<>>
        /\ session = NoSession

IdleUnchanged == UNCHANGED <<analyzer, csv, df, stages, error, session>>

Modules == {"madlan_column_identifier", "yad_2_column_identifier"}

\* header labels of a headerless scrape: c1, c2, ...
Header(n) == [i \in 1..n |-> "c" \o ToString(i)]

\* a file of n rows given by its columns
FileOfColumns(cols, n) ==
    [status |-> FileOk,
     header |-> Header(Len(cols)),
     lines  |-> [r \in 1..n |-> [i \in 1..Len(cols) |-> cols[i][r]]]]

(* drop_sequential_identical_columns, applied once and then again *)

MaxDropCols == 2

DropRowCounts == {0, 1, 2, SeqRows, SeqRows + 1}

\* a column of n rows: a before row k, b from row k on
ShapeCol(n, k, a, b) == [r \in 1..n |-> IF r < k THEN a ELSE b]

DropColumns(n) ==
    {ShapeCol(n, k, a, b) : k \in {2, n, n + 1}, a \in {"x", NaN}, b \in {"x", "y", NaN}}

DropFiles ==
    UNION {{FileOfColumns(cols, n) : cols \in [1..c -> DropColumns(n)]} :
           c \in 1..MaxDropCols, n \in DropRowCounts}

DropFn(module, t) ==
    IF module = "madlan_column_identifier"
    THEN madlan_drop_sequential_identical_columns(t)
    ELSE drop_sequential_identical_columns(t)

InitDrop ==
    /\ analyzer \in Modules
    /\ csv \in DropFiles
    /\ arg = read_csv(csv)
    /\ ret = read_csv(csv)
    /\ pc = "drop"
    /\ Idle

DropOnce ==
    /\ pc = "drop"
    /\ ret' = DropFn(analyzer, arg.df)
    /\ pc' = "dropped"
    /\ UNCHANGED <<arg, session>>
    /\ IdleUnchanged

\* the call repeated on the table the first call returned
DropAgain ==
    /\ pc = "dropped"
    /\ ret.exc = "none"
    /\ arg' = ret
    /\ ret' = DropFn(analyzer, ret.df)
    /\ pc' = "dropped_twice"
    /\ IdleUnchanged

NextDrop == DropOnce \/ DropAgain

SpecDrop == InitDrop /\ [][NextDrop]_vars

(* identify_column of both modules *)

MaxSample == 2

IdentifyCells ==
    {NaN, "80", "abc",
     "https://www.madlan.co.il/listings/1", "https://www.yad2.co.il/item/1",
     "https://img.yad2.co.il/pic/1.jpg",
     "1,250,000 ₪", "5000 ₪", "ירד ב-500 ₪",
     "הרצל 5, תל אביב", "רחוב הרצל 5", "3 חדרים", "קומה 2", "80 מ\"ר",
     "בלעדי", "תיווך"}

IdentifyFiles ==
    UNION {{[status |-> FileOk, header |-> Header(1),
             lines |-> [r \in 1..n |-> <<cells[r]>>]] : cells \in [1..n -> IdentifyCells]} :
           n \in 0..MaxSample}

InitIdentify ==
    /\ analyzer = "none"
    /\ csv \in IdentifyFiles
    /\ arg = SeriesAt(read_csv(csv).df, 1)
    /\ ret = "none"
    /\ pc = "identify"
    /\ Idle

IdentifyMadlan ==
    /\ pc = "identify"
    /\ ret' = madlan_identify_column(arg)
    /\ analyzer' = "madlan_column_identifier"
    /\ pc' = "identified"
    /\ UNCHANGED <<csv, df, stages, error, arg, session>>

IdentifyYad2 ==
    /\ pc = "identify"
    /\ ret' = identify_column(arg)
    /\ analyzer' = "yad_2_column_identifier"
    /\ pc' = "identified"
    /\ UNCHANGED <<csv, df, stages, error, arg, session>>

NextIdentify == IdentifyMadlan \/ IdentifyYad2

SpecIdentify == InitIdentify /\ [][NextIdentify]_vars

(* the renaming loop of identify_and_rename_columns *)

MaxTypes == 3

Fallback(module) ==
    IF module = "madlan_column_identifier" THEN "additional_info" ELSE "more_info"

TypesOf(module) == IF module = "madlan_column_identifier" THEN MadlanTypes ELSE Yad2Types

InitRename ==
    /\ analyzer \in Modules
    /\ csv = NoFile
    /\ arg \in UNION {[1..n -> TypesOf(analyzer)] : n \in 0..MaxTypes}
    /\ ret = <<>>
    /\ pc = "rename"
    /\ Idle

Rename ==
    /\ pc = "rename"
    /\ ret' = RenameColumns(arg, Fallback(analyzer))
    /\ pc' = "renamed"
    /\ UNCHANGED <<arg, session>>
    /\ IdleUnchanged

NextRename == Rename

SpecRename == InitRename /\ [][NextRename]_vars

(* The cell functions of the metric stages, each applied to one column of a *)
(* file                                                                     *)

MaxCells == 2

ExtractTexts ==
    {NaN, "1,250,000 ₪", "5000", "לא צוין מחיר", "80 מ\"ר", "80 מ.ר.", "3.5.", "2.5",
     "3 חדרים | 80 מ״ר | 95 מטר", "2.5 חדרים | 62.5 מטר", "קומה 2"}

ExtractFiles ==
    UNION {{[status |-> FileOk, header |-> Header(1),
             lines |-> [r \in 1..n |-> <<cells[r]>>]] : cells \in [1..n -> ExtractTexts]} :
           n \in 1..MaxCells}

\* the rows of the column handed to series.apply
Cells == 1..Len(arg.values)

\* the price_numeric cell of the sale analyzers and of RentalAnalyzer: the
\* digits of str(x) joined, then pd.to_numeric(errors='coerce')
price_numeric(x) == ToNumeric(DigitsOf(x))

\* Yad2RentalAnalyzer._clean_price_values.clean_price
clean_price(price_str) ==
    IF isna(price_str) THEN None
    ELSE IF DigitsOf(price_str) # "" THEN Whole(ToInt(DigitsOf(price_str)))
    ELSE None

InitExtract ==
    /\ analyzer = "none"
    /\ csv \in ExtractFiles
    /\ arg = SeriesAt(read_csv(csv).df, 1)
    /\ ret = <<>>
    /\ pc = "extract"
    /\ Idle

Extracted(fn, values) ==
    /\ pc = "extract"
    /\ ret' = values
    /\ analyzer' = fn
    /\ pc' = "extracted"
    /\ UNCHANGED <<csv, df, stages, error, arg, session>>

ExtractPrice == Extracted("price_numeric", [r \in Cells |-> price_numeric(arg.values[r])])

CleanPrice == Extracted("clean_price", [r \in Cells |-> clean_price(arg.values[r])])

ExtractSize == Extracted("extract_size", [r \in Cells |-> extract_size(arg.values[r])])

ExtractNumericRooms == Extracted("extract_numeric_rooms", [r \in Cells |-> extract_numeric_rooms(arg.values[r])])

Yad2ExtractSize == Extracted("yad2_extract_size", [r \in Cells |-> yad2_extract_size(arg.values[r])])

Yad2ExtractRooms == Extracted("extract_rooms", [r \in Cells |-> extract_rooms(arg.values[r])])

NextExtract ==
    \/ ExtractPrice
    \/ CleanPrice
    \/ ExtractSize
    \/ ExtractNumericRooms
    \/ Yad2ExtractSize
    \/ Yad2ExtractRooms

SpecExtract == InitExtract /\ [][NextExtract]_vars

-----------------------------------------------------------------------------
(* The constructors of the four analyzers, run on one CSV file *)

Analyzers == {"MadlanAnalyzer", "RentalAnalyzer", "Yad2Analyzer", "Yad2RentalAnalyzer"}

SignatureBased == {"MadlanAnalyzer", "RentalAnalyzer"}
ContentBased == {"Yad2Analyzer", "Yad2RentalAnalyzer"}
SaleAnalyzers == {"MadlanAnalyzer", "Yad2Analyzer"}

MaxRows == 2

\* the scraped listings the files are made of: a link (an ordinary listing, a
\* project page, none) with its address, and a price with a size
MadlanLinks ==
    {<<"https://www.madlan.co.il/listings/1", "הרצל 5, תל אביב">>,
     <<"https://www.madlan.co.il/Projects/2", "הרצל 12, תל אביב">>,
     <<NaN, "דיזנגוף 1, תל אביב">>}

MadlanPrices ==
    {<<"1,250,000 ₪", "80 מ\"ר", "3 חדרים">>, <<"990,000 ₪", "0", "2">>,
     <<"1,250,000 ₪", NaN, "3.5 חדרים">>, <<NaN, "62.5 מ\"ר", NaN>>}

MadlanListings ==
    {[link |-> l[1], address |-> l[2], adress |-> l[2], price |-> p[1], size |-> p[2],
      rooms |-> p[3]] : l \in MadlanLinks, p \in MadlanPrices}

Yad2Links ==
    {<<"https://www.yad2.co.il/item/1", "רחוב הרצל 5">>,
     <<"https://www.yad2.co.il/yad1/Projects/7", "רחוב הרצל 12">>,
     <<NaN, "שכונה נווה צדק">>}

Yad2Prices ==
    {<<"5,000 ₪", "3 חדרים | קומה 2 | 80 מ\"ר">>, <<"7,500 ₪", "2 חדרים | 0 מ\"ר">>,
     <<"6,000 ₪", "4 חדרים | קומה 1">>, <<NaN, "2.5 חדרים | 62 מטר">>}

Yad2Listings ==
    {[link |-> l[1], address |-> l[2], price |-> p[1], info |-> p[2]] :
        l \in Yad2Links, p \in Yad2Prices}

\* the cell of a listing under a column: its field, or for a column the
\* listing has no field for, a text that is the same in every row ("blank"
\* is a column without any value)
CellFor(name, listing) ==
    IF name \in DOMAIN listing THEN listing[name]
    ELSE IF name = "blank" THEN NaN
    ELSE name

\* the file holding the listings under the layout names, with the given header
FileOfListings(names, header, listings) ==
    [status |-> FileOk,
     header |-> header,
     lines  |-> [r \in 1..Len(listings) |->
                    [i \in 1..Len(names) |-> CellFor(names[i], listings[r])]]]

SeqsUpTo(S, n) == UNION {[1..k -> S] : k \in 1..n}

\* a layout of a column count no signature lists
Other10 == <<"link", "price", "rooms", "floor", "size", "address", "exclusive", "image_src",
             "developer_link", "project_name">>

\* a scrape of the sale site: the layouts of the signatures under a
\* headerless header, and the unlisted count with either header
MadlanFiles ==
    {FileOfListings(names, Header(Len(names)), ls) :
        names \in {Madlan9, Madlan12, Madlan13, Madlan14, Other10},
        ls \in SeqsUpTo(MadlanListings, MaxRows)}
    \cup {FileOfListings(Other10, Other10, ls) : ls \in SeqsUpTo(MadlanListings, MaxRows)}

RentalFiles ==
    {FileOfListings(names, Header(Len(names)), ls) :
        names \in {Rental16, Rental12, Rental13, Other10},
        ls \in SeqsUpTo(MadlanListings, MaxRows)}
    \cup {FileOfListings(Other10, Other10, ls) : ls \in SeqsUpTo(MadlanListings, MaxRows)}

Yad2Layouts ==
    {<<"link", "price", "address", "info">>,
     <<"badge", "link", "price", "address", "info">>,
     <<"link", "price", "address", "info", "blank">>}

Yad2Files ==
    {FileOfListings(names, Header(Len(names)), ls) :
        names \in Yad2Layouts, ls \in SeqsUpTo(Yad2Listings, MaxRows)}

FilesFor(a) ==
    (IF a = "MadlanAnalyzer" THEN MadlanFiles
     ELSE IF a = "RentalAnalyzer" THEN RentalFiles
     ELSE Yad2Files)
    \cup {NoFile, [status |-> FileUnparsable, header |-> <<>>, lines |-> <<>>]}

Init ==
    /\ analyzer \in Analyzers
    /\ csv \in FilesFor(analyzer)
    /\ df = EmptyDF
    /\ pc = "load"
    /\ stages = <<>>
    /\ error = <<>>
    /\ arg = "none"
    /\ ret = "none"
    /\ session = NoSession

\* what the except clause of _load_and_clean_data emits
Message(channel, exc) == [channel |-> channel, text |-> "Error processing CSV file", exc |-> exc]

\* self.df = self._load_and_clean_data(), then the test of self.df.empty
AfterLoad(r, channel, next) ==
    /\ df' = r.df
    /\ stages' = r.stages
    /\ error' = IF r.exc = "none" THEN error ELSE Append(error, Message(channel, r.exc))
    /\ pc' = IF IsEmpty(r.df) THEN "constructed" ELSE next
    /\ UNCHANGED <<analyzer, csv, arg, ret, session>>

MadlanLoadAndCleanData ==
    /\ pc = "load" /\ analyzer = "MadlanAnalyzer"
    /\ AfterLoad(MadlanLoad(csv), "st.error", "price_per_meter")

RentalLoadAndCleanData ==
    /\ pc = "load" /\ analyzer = "RentalAnalyzer"
    /\ AfterLoad(RentalLoad(csv), "print", "clean_price")

Yad2LoadAndCleanData ==
    /\ pc = "load" /\ analyzer = "Yad2Analyzer"
    /\ AfterLoad(Yad2Load(csv), "st.error", "price_per_meter")

Yad2RentalLoadAndCleanData ==
    /\ pc = "load" /\ analyzer = "Yad2RentalAnalyzer"
    /\ AfterLoad(Yad2RentalLoad(csv), "print", "clean_price")

\* a stage of __init__ after the load: an exception leaves the constructor
AfterStage(r, name, next) ==
    /\ df' = IF r.exc = "none" THEN r.df ELSE df
    /\ stages' = Append(stages, name)
    /\ error' = IF r.exc = "none" THEN error ELSE Append(error, Message("raise", r.exc))
    /\ pc' = IF r.exc = "none" THEN next ELSE "raised"
    /\ UNCHANGED <<analyzer, csv, arg, ret, session>>

MadlanCalculatePricePerMeter ==
    /\ pc = "price_per_meter" /\ analyzer = "MadlanAnalyzer"
    /\ AfterStage(madlan_calculate_price_per_meter(df), "_calculate_price_per_meter",
                  "indicators")

Yad2CalculatePricePerMeter ==
    /\ pc = "price_per_meter" /\ analyzer = "Yad2Analyzer"
    /\ AfterStage(yad2_calculate_price_per_meter(df), "_calculate_price_per_meter",
                  "indicators")

MadlanCalculateIndicators ==
    /\ pc = "indicators" /\ analyzer = "MadlanAnalyzer"
    /\ AfterStage(madlan_calculate_indicators(df), "calculate_indicators", "constructed")

Yad2CalculateIndicators ==
    /\ pc = "indicators" /\ analyzer = "Yad2Analyzer"
    /\ AfterStage(yad2_calculate_indicators(df), "calculate_indicators", "constructed")

CleanPriceValues ==
    /\ pc = "clean_price" /\ analyzer \in {"RentalAnalyzer", "Yad2RentalAnalyzer"}
    /\ AfterStage(clean_price_values(df), "_clean_price_values", "constructed")

Next ==
    \/ MadlanLoadAndCleanData
    \/ RentalLoadAndCleanData
    \/ Yad2LoadAndCleanData
    \/ Yad2RentalLoadAndCleanData
    \/ MadlanCalculatePricePerMeter
    \/ Yad2CalculatePricePerMeter
    \/ MadlanCalculateIndicators
    \/ Yad2CalculateIndicators
    \/ CleanPriceValues

Spec == Init /\ [][Next]_vars

-----------------------------------------------------------------------------
(* calculate_indicators of the sale analyzers, run on the table that          *)
(* _calculate_price_per_meter returned                                         *)

MaxIndicatorRows == 1

IndicatorSizes == {"50", "60", "62.5", "70", "75", "80", "90", NaN}
IndicatorRooms == {"2", "3", "2.5", "4", NaN}

\* a sale listing of the given size and rooms
MadlanSized(size, rooms) ==
    [link |-> "https://www.madlan.co.il/listings/1", address |-> "הרצל 5, תל אביב",
     price |-> "1,250,000 ₪",
     size |-> IF isna(size) THEN NaN ELSE size \o " מ\"ר",
     rooms |-> IF isna(rooms) THEN NaN ELSE rooms \o " חדרים"]

\* the info text of a listing of the other site
Yad2Info(size, rooms) ==
    IF isna(size) /\ isna(rooms) THEN "קומה 2"
    ELSE IF isna(size) THEN rooms \o " חדרים | קומה 2"
    ELSE IF isna(rooms) THEN "קומה 2 | " \o size \o " מ״ר"
    ELSE rooms \o " חדרים | קומה 2 | " \o size \o " מ״ר"

Yad2Sized(size, rooms) ==
    [link |-> "https://www.yad2.co.il/item/2", address |-> "רחוב הרצל 12",
     price |-> "7,500 ₪", info |-> Yad2Info(size, rooms)]

\* a listing that keeps every column of a two-row scrape from being constant
Yad2First ==
    [link |-> "https://www.yad2.co.il/item/1", address |-> "רחוב דיזנגוף 1",
     price |-> "5,000 ₪", info |-> "5 חדרים | קומה 1 | 120 מ\"ר"]

IndicatorFiles(a) ==
    IF a = "MadlanAnalyzer"
    THEN {FileOfListings(Madlan12, Header(Len(Madlan12)), ls) :
            ls \in SeqsUpTo({MadlanSized(s, r) : s \in IndicatorSizes, r \in IndicatorRooms},
                            MaxIndicatorRows)}
    ELSE {FileOfListings(<<"link", "price", "address", "info">>, Header(4), <<Yad2First>> \o ls) :
            ls \in SeqsUpTo({Yad2Sized(s, r) : s \in IndicatorSizes, r \in IndicatorRooms},
                            MaxIndicatorRows)}

\* the table self.df holds when calculate_indicators is called
PricedTable(a, file) ==
    IF a = "MadlanAnalyzer" THEN madlan_calculate_price_per_meter(MadlanLoad(file).df).df
    ELSE yad2_calculate_price_per_meter(Yad2Load(file).df).df

InitIndicators ==
    /\ analyzer \in SaleAnalyzers
    /\ csv \in IndicatorFiles(analyzer)
    /\ df = PricedTable(analyzer, csv)
    /\ stages = Append(IF analyzer = "MadlanAnalyzer" THEN MadlanLoad(csv).stages
                       ELSE Yad2Load(csv).stages, "_calculate_price_per_meter")
    /\ error = <<>>
    /\ pc = "indicators"
    /\ arg = "none"
    /\ ret = "none"
    /\ session = NoSession

NextIndicators == MadlanCalculateIndicators \/ Yad2CalculateIndicators

SpecIndicators == InitIndicators /\ [][NextIndicators]_vars

-----------------------------------------------------------------------------
(* The analyses called on a constructed analyzer *)

MaxAnalysisRows == 3

\* the scraped listings: an address with a price
AnalysisListings ==
    {<<"רחוב הרצל 5, תל אביב", "100 ₪">>, <<"רחוב הרצל 12, תל אביב", "200 ₪">>,
     <<"רחוב הרצל 5, תל אביב", "300 ₪">>, <<"רחוב הרצל 5, רמת גן", "200 ₪">>,
     <<"רחוב ביאליק 1, רמת גן", "0 ₪">>, <<NaN, NaN>>}

SiteOf(a) ==
    IF a \in {"MadlanAnalyzer", "RentalAnalyzer"} THEN "https://www.madlan.co.il/listings/"
    ELSE "https://www.yad2.co.il/item/"

\* the region text the second site shows for an address
RegionOf(address) ==
    IF isna(address) THEN NaN
    ELSE IF Contains(address, "רמת גן") THEN "מזרח רמת גן"
    ELSE "צפון תל אביב"

\* the cell of row r under a column: every listing has a link of its own
AnalysisCell(a, name, r, listing) ==
    IF name = "link" THEN SiteOf(a) \o ToString(r)
    ELSE IF name \in {"address", "adress"} THEN listing[1]
    ELSE IF name = "price" THEN listing[2]
    ELSE IF name = "size" THEN "1 מ\"ר"
    ELSE IF name = "rooms" THEN "3 חדרים"
    ELSE IF name = "info" THEN "3 חדרים | קומה " \o ToString(r) \o " | 1 מ\"ר"
    ELSE IF name = "where" THEN RegionOf(listing[1])
    ELSE IF name = "price_change" /\ a \in ContentBased
    THEN "ירד ב-" \o ToString(r) \o "0 ₪"
    ELSE name

AnalysisLayouts(a) ==
    IF a = "MadlanAnalyzer" THEN {Madlan12, Madlan9}
    ELSE IF a = "RentalAnalyzer" THEN {Rental12}
    ELSE IF a = "Yad2Analyzer" THEN {<<"link", "price", "address", "info">>}
    ELSE {<<"link", "address", "price", "info">>, <<"link", "where", "address", "price">>}

AnalysisFiles(a) ==
    {[status |-> FileOk,
      header |-> Header(Len(names)),
      lines  |-> [r \in 1..Len(ls) |->
                     [i \in 1..Len(names) |-> AnalysisCell(a, names[i], r, ls[r])]]] :
        names \in AnalysisLayouts(a), ls \in SeqsUpTo(AnalysisListings, MaxAnalysisRows)}
    \cup {NoFile}

InitAnalysis ==
    /\ analyzer \in Analyzers
    /\ csv \in AnalysisFiles(analyzer)
    /\ df = EmptyDF
    /\ pc = "load"
    /\ stages = <<>>
    /\ error = <<>>
    /\ arg = "none"
    /\ ret = "none"
    /\ session = NoSession

\* a call of an analysis on the constructed analyzer; an exception goes to
\* the caller and the analyzer stays as the call left it
Analysed(name, r) ==
    /\ pc = "constructed"
    /\ arg' = name
    /\ ret' = [exc |-> r.exc, rows |-> r.rows]
    /\ df' = r.df
    /\ UNCHANGED <<analyzer, csv, pc, stages, error, session>>

FindSameAddress ==
    Analysed("find_same_address",
             IF analyzer = "MadlanAnalyzer" THEN madlan_find_same_address(df)
             ELSE IF analyzer = "Yad2Analyzer" THEN yad2_find_same_address(df)
             ELSE IF analyzer = "RentalAnalyzer" THEN rental_find_same_address(df)
             ELSE yad2_rental_find_same_address(df))

FindSameStreet ==
    Analysed("find_same_street",
             IF analyzer = "MadlanAnalyzer" THEN madlan_find_same_street(df)
             ELSE IF analyzer = "Yad2Analyzer" THEN yad2_find_same_street(df)
             ELSE IF analyzer = "RentalAnalyzer" THEN rental_find_same_street(df)
             ELSE yad2_rental_find_same_street(df))

FindCheaperProperties ==
    Analysed("find_cheaper_properties",
             IF analyzer = "MadlanAnalyzer" THEN madlan_find_cheaper_properties(df)
             ELSE IF analyzer = "Yad2Analyzer" THEN yad2_find_cheaper_properties(df)
             ELSE IF analyzer = "RentalAnalyzer" THEN rental_find_cheaper_properties(df)
             ELSE yad2_rental_find_cheaper_properties(df))

\* analyze_by_area exists in the rental analyzers only
AnalyzeByArea ==
    /\ analyzer \in {"RentalAnalyzer", "Yad2RentalAnalyzer"}
    /\ Analysed("analyze_by_area",
                IF analyzer = "RentalAnalyzer" THEN rental_analyze_by_area(df)
                ELSE yad2_rental_analyze_by_area(df))

\* get_display_data exists in the rental analyzers only; it works on a copy
GetDisplayData ==
    /\ analyzer \in {"RentalAnalyzer", "Yad2RentalAnalyzer"}
    /\ pc = "constructed"
    /\ arg' = "get_display_data"
    /\ ret' = [exc  |-> "none",
               rows |-> IF analyzer = "RentalAnalyzer" THEN rental_get_display_data(df).data
                        ELSE yad2_rental_get_display_data(df).data,
               columns |-> IF analyzer = "RentalAnalyzer"
                           THEN rental_get_display_data(df).columns
                           ELSE yad2_rental_get_display_data(df).columns]
    /\ UNCHANGED <<analyzer, csv, df, pc, stages, error, session>>

NextAnalysis ==
    \/ Next
    \/ FindSameAddress
    \/ FindSameStreet
    \/ FindCheaperProperties
    \/ AnalyzeByArea
    \/ GetDisplayData

SpecAnalysis == InitAnalysis /\ [][NextAnalysis]_vars

-----------------------------------------------------------------------------
(* Properties *)

Distinct(names) == \A i, j \in 1..Len(names) : i # j => names[i] # names[j]

\* stage a occurs in the log, and stage b never occurs before the first a
Precedes(log, b, a) ==
    \A k \in 1..Len(log) : log[k] = a => \E j \in 1..(k - 1) : log[j] = b

SignaturesOf(a) == IF a = "MadlanAnalyzer" THEN MadlanSignatures ELSE RentalSignatures

MetricsDone == pc \in {"indicators", "constructed"} /\ HasCol(df, "price_per_meter")

\* C1: after a sale analyzer (MadlanAnalyzer, Yad2Analyzer) is constructed on
\* a non-empty table, price_per_meter of every listing is set if and only if
\* price_numeric and size_numeric are both present and size_numeric > 0; in
\* every other case it is the missing value, never zero or infinite.
C1_PricePerMeterSetIff ==
    (analyzer \in SaleAnalyzers /\ MetricsDone) =>
        \A r \in 1..Len(df.data) :
            LET usable == /\ notna(Field(df, r, "price_numeric"))
                          /\ notna(Field(df, r, "size_numeric"))
                          /\ Field(df, r, "size_numeric").n > 0
            IN  /\ notna(Field(df, r, "price_per_meter")) <=> usable
                /\ ~usable => Field(df, r, "price_per_meter") = None

\* C1 witness: a constructed MadlanAnalyzer holding a listing with a price per
\* meter and a listing of size 0 without one
C1_Witness ==
    /\ analyzer = "MadlanAnalyzer" /\ pc = "constructed" /\ MetricsDone
    /\ \E r \in 1..Len(df.data) : notna(Field(df, r, "price_per_meter"))
    /\ \E r \in 1..Len(df.data) :
        /\ Field(df, r, "size_numeric") = Whole(0)
        /\ notna(Field(df, r, "price_numeric"))
        /\ Field(df, r, "price_per_meter") = None

\* C2: for each of the four analyzers, after _load_and_clean_data returns no
\* surviving row has a link containing "projects" in any letter case.
C2_NoProjectsLinkSurvives ==
    (pc # "load" /\ HasCol(df, "link")) =>
        \A r \in 1..Len(df.data) : ~Contains(Lower(Field(df, r, "link")), "projects")

\* C3: on the signature-based path a table whose column count is not one of
\* the enumerated signatures is reported as an unsupported schema, with an
\* outcome other than that of a generic CSV failure, and is never processed.
C3_UnknownCountReportedUnsupported ==
    (/\ analyzer \in SignatureBased /\ pc # "load" /\ csv.status = FileOk
     /\ Len(csv.header) \notin SignaturesOf(analyzer)) =>
        /\ IsEmpty(df)
        /\ \E k \in 1..Len(error) : error[k].text # "Error processing CSV file"

\* C5: for every enumerated column-count signature of the signature-based
\* path the positional mapping assigns pairwise distinct names, so the
\* normalized table never has two columns of the same name.
C5_SignatureNamesDistinct ==
    (/\ analyzer \in SignatureBased /\ pc # "load" /\ csv.status = FileOk
     /\ Len(csv.header) \in SignaturesOf(analyzer)) => Distinct(df.columns)

C4_RenamedColumnsDistinct ==
    pc = "renamed" =>
        /\ Len(ret) = Len(arg)
        /\ Distinct(ret)
        /\ \A k \in 1..Len(arg) :
            LET m == Cardinality({j \in 1..k : arg[j] = arg[k]})
            IN  ret[k] = IF arg[k] = Fallback(analyzer) \/ m >= 2
                         THEN arg[k] \o "_" \o ToString(m)
                         ELSE arg[k]

\* C4 witness: a type seen three times next to nothing else
C4_Witness ==
    /\ pc = "renamed"
    /\ analyzer = "yad_2_column_identifier"
    /\ ret = <<"price", "price_2", "price_3">>

\* C6: identify_column (both modules) tests its rules in the order URL,
\* currency, address, rooms, floor, size, ...: a column whose sample holds a
\* currency symbol and digits and no URL is classified price (or
\* price_change), whatever address, rooms, floor or size text it also holds.
C6_CurrencyBeforeAddress ==
    (/\ pc = "identified" /\ arg.dtype = "object"
     /\ AnyContains(Sample(arg), CurrencyWords)
     /\ \E k \in 1..Len(Sample(arg)) : HasDigit(Sample(arg)[k])
     /\ ~AnyContains(Sample(arg), {"http"})) => ret \in {"price", "price_change"}

\* C7: identify_column returns a type for every column without raising, also
\* for a column whose values are all missing or not text, and an empty sample
\* gives the fallback type.
C7_AlwaysClassifies ==
    pc = "identified" =>
        /\ ret # "AttributeError"
        /\ Len(Sample(arg)) = 0 => ret = Fallback(analyzer)

\* each of the first 20 rows of the column equals its first value, a missing
\* value counting as equal to a missing value
FirstRowsAllEqual(col) == \A r \in 1..Min(SeqRows, Len(col)) : col[r] = col[1]

\* C8: drop_sequential_identical_columns removes a column if and only if each
\* of its first 20 rows equals its first value (missing values included, for
\* any row count); every other column is kept, values and order unchanged.
C8_DropsIffFirstRowsEqual ==
    (pc = "dropped" /\ Len(arg.df.data) >= 1) =>
        /\ ret.exc = "none"
        /\ ret.df = TakeCols(arg.df,
                             SelectIdx([i \in 1..Len(arg.df.columns) |->
                                           ~FirstRowsAllEqual(ColumnAt(arg.df, i))],
                                       1, Len(arg.df.columns)))

\* C9: drop_sequential_identical_columns is idempotent: applied to the table
\* it returned, it returns that table (same columns, same rows).
C9_DropIdempotent == pc = "dropped_twice" => ret = arg

\* C9 witness: the second call ran on a table from which the first call took
\* some columns and left others
C9_Witness ==
    /\ pc = "dropped_twice"
    /\ Len(ret.df.columns) > 0
    /\ Len(ret.df.columns) < Len(csv.header)

\* C11: after _load_and_clean_data of any of the four analyzers has returned a
\* non-empty table, no two rows of it are equal in every retained column.
C11_NoDuplicateRows ==
    pc \in {"price_per_meter", "clean_price"} =>
        \A q, r \in 1..Len(df.data) : q # r => df.data[q] # df.data[r]

\* the text of row r of the column as the file holds it
RawCell(r) == csv.lines[r][1]

\* C12: price extraction maps every raw price cell to the integer formed by
\* its digit characters in order, and to missing when the cell has no digit
\* (a missing cell included); "1,250,000 ₪" gives 1250000.
C12_PriceIsDigitsOfRawCell ==
    (pc = "extracted" /\ analyzer \in {"price_numeric", "clean_price"}) =>
        \A r \in 1..Len(ret) :
            /\ ret[r] = IF DigitsOf(RawCell(r)) = "" THEN None
                        ELSE Whole(ToInt(DigitsOf(RawCell(r))))
            /\ RawCell(r) = "1,250,000 ₪" => ret[r] = Whole(1250000)

\* C13: size extraction keeps the digits and decimal points of the cell and
\* parses them as a float; a cell with no digit or point is missing, and a
\* cell that strips to a text with more than one decimal point still yields
\* a number.
C13_SizeIsNumberOfStrippedCell ==
    (pc = "extracted" /\ analyzer = "extract_size") =>
        \A r \in 1..Len(ret) :
            LET stripped == DigitsAndPointsOf(RawCell(r)) IN
            /\ stripped = "" => ret[r] = None
            /\ IsNumberText(stripped) => ret[r] = ToFloat(stripped)
            /\ (CountPoints(stripped) > 1 /\ HasDigit(stripped)) => notna(ret[r])

\* C14: rooms extraction gives, for every cell, the result of size extraction
\* on the same text; a cell that strips to "3.5." yields 3.5.
C14_RoomsEqualsSizeExtraction ==
    (pc = "extracted" /\ analyzer = "extract_numeric_rooms") =>
        \A r \in 1..Len(ret) :
            /\ ret[r] = extract_size(arg.values[r])
            /\ DigitsAndPointsOf(RawCell(r)) = "3.5." => ret[r] = Rat(35, 10)

\* the positions where a number ends that a unit token follows, blanks aside
NumberEnds(s, units) == {e \in 1..Len(s) : isdigit(Char(s, e)) /\ FollowedBy(s, e, units)}

\* the start of the run of digits that ends at e
RunStart(s, e) ==
    CHOOSE a \in 1..e :
        /\ \A k \in a..e : isdigit(Char(s, k))
        /\ (a = 1 \/ ~isdigit(Char(s, a - 1)))

\* the start of the number (digits, or digits, a point and digits) ending at e
NumberStart(s, e) ==
    LET a == RunStart(s, e) IN
    IF a >= 3 /\ Char(s, a - 1) = "." /\ isdigit(Char(s, a - 2)) THEN RunStart(s, a - 2)
    ELSE a

\* the number immediately preceding the first unit token that has one
NumberBeforeFirstUnit(s, units) ==
    IF isna(s) \/ NumberEnds(s, units) = {} THEN None
    ELSE LET e == CHOOSE a \in NumberEnds(s, units) : \A b \in NumberEnds(s, units) : a <= b
         IN  ToFloat(SubSeq(s, NumberStart(s, e), e))

\* C15: embedded extraction of Yad2Analyzer returns, for size, the number
\* immediately preceding the first square-meter unit token of the info text
\* and, for rooms, the number immediately preceding the first rooms token;
\* a text without a match, or a missing cell, yields missing.
C15_EmbeddedNumberBeforeUnit ==
    /\ (pc = "extracted" /\ analyzer = "yad2_extract_size") =>
            \A r \in 1..Len(ret) : ret[r] = NumberBeforeFirstUnit(RawCell(r), SizeUnits)
    /\ (pc = "extracted" /\ analyzer = "extract_rooms") =>
            \A r \in 1..Len(ret) : ret[r] = NumberBeforeFirstUnit(RawCell(r), {RoomsWord})

\* C20: after calculate_indicators every listing has size_rooms_indicator
\* "optimal" if and only if 60 < size_numeric < 75 and rooms_numeric = 2, or
\* 75 < size_numeric < 90 and rooms_numeric is 2 or 3 (bounds strict), and
\* "regular" otherwise: at size 60, 75 or 90 and with size or rooms missing.
C20_OptimalIffStrictRanges ==
    (pc = "constructed" /\ HasCol(df, "size_rooms_indicator")) =>
        \A r \in 1..Len(df.data) :
            LET size  == Field(df, r, "size_numeric")
                rooms == Field(df, r, "rooms_numeric")
                inRange(lo, hi) == lo * size.d < size.n /\ size.n < hi * size.d
                isRooms(k) == rooms.n = k * rooms.d
                optimal == /\ size.d # 0 /\ rooms.d # 0
                           /\ \/ inRange(60, 75) /\ isRooms(2)
                              \/ inRange(75, 90) /\ (isRooms(2) \/ isRooms(3))
            IN  Field(df, r, "size_rooms_indicator") = IF optimal THEN "optimal" ELSE "regular"

\* C20 witness: calculate_indicators has tagged a listing of 80 square meters
\* and 3 rooms as optimal
C20_Witness ==
    /\ pc = "constructed" /\ HasCol(df, "size_rooms_indicator")
    /\ \E r \in 1..Len(df.data) :
          /\ Field(df, r, "size_numeric") = Whole(80)
          /\ Field(df, r, "rooms_numeric") = Whole(3)
          /\ Field(df, r, "size_rooms_indicator") = "optimal"


\* the column holding the address of a listing ('adress' in the nine-column files)
ListingAddress(t) == IF HasCol(t, "address") THEN "address" ELSE "adress"

\* the listings whose exact address text is the address of another listing
SharedAddress(t) ==
    LET a == ColumnAt(t, ColIndex(t, ListingAddress(t))) IN
    {r \in 1..Len(a) : ~isna(a[r]) /\ \E s \in 1..Len(a) : s # r /\ a[s] = a[r]}

RentalAnalyzers == {"RentalAnalyzer", "Yad2RentalAnalyzer"}

\* C16: find_same_address returns exactly one row per listing whose exact
\* address is the address of at least one other listing and no row for a
\* listing whose address is unique or missing; each row carries the address
\* and the link of its listing, and a price in the rental analyzers.
C16_SameAddressRows ==
    (/\ pc = "constructed"
     /\ arg = "find_same_address"
     /\ ~IsEmpty(df)
     /\ HasCol(df, "address") \/ HasCol(df, "adress")
     /\ HasCol(df, "link"))
    => /\ ret.exc = "none"
       /\ Len(ret.rows) = Cardinality(SharedAddress(df))
       /\ \A k \in 1..Len(ret.rows) : {"Address", "Link"} \subseteq DOMAIN ret.rows[k]
       /\ {<<ret.rows[k].Address, ret.rows[k].Link>> : k \in 1..Len(ret.rows)}
          = {<<Field(df, r, ListingAddress(df)), Field(df, r, "link")>> :
                r \in SharedAddress(df)}
       /\ analyzer \in RentalAnalyzers
          => \A k \in 1..Len(ret.rows) : "Price" \in DOMAIN ret.rows[k]

\* the listings whose derived street name is the derived name of another listing
SharedStreet(names) ==
    {r \in 1..Len(names) :
        ~isna(names[r]) /\ \E s \in 1..Len(names) : s # r /\ names[s] = names[r]}

\* the address with every digit deleted and the whitespace collapsed; no name
\* for an address that is null or not a string
DigitFreeNames(t) ==
    LET i == ColIndex(t, ListingAddress(t)) IN
    [r \in 1..Len(t.data) |->
        IF t.dtypes[i] # "object" \/ isna(t.data[r][i]) THEN NaN
        ELSE JoinSplit(NonDigitsOf(t.data[r][i]))]

\* C17: in the sale analyzers find_same_street derives the street name of a
\* listing by deleting every digit of the address and collapsing whitespace,
\* and returns exactly the listings whose derived name is shared by another
\* listing; a listing whose address is null or not a string is in no group.
C17_SaleSameStreetRows ==
    (/\ pc = "constructed"
     /\ arg = "find_same_street"
     /\ analyzer \in SaleAnalyzers
     /\ ~IsEmpty(df)
     /\ HasCol(df, "address") \/ HasCol(df, "adress")
     /\ HasCol(df, "link"))
    => /\ ret.exc = "none"
       /\ Len(ret.rows) = Cardinality(SharedStreet(DigitFreeNames(df)))
       /\ {<<ret.rows[k].Street, ret.rows[k].Full_Address, ret.rows[k].Link>> :
              k \in 1..Len(ret.rows)}
          = {<<DigitFreeNames(df)[r], Field(df, r, ListingAddress(df)), Field(df, r, "link")>> :
                r \in SharedStreet(DigitFreeNames(df))}
       /\ \A k \in 1..Len(ret.rows) : ~isna(ret.rows[k].Street)

\* the whitespace-collapsed text before the first comma of the address, digits
\* kept; no name for an address that is null or not a string
BeforeCommaNames(t) ==
    LET i == ColIndex(t, "address") IN
    [r \in 1..Len(t.data) |->
        IF t.dtypes[i] # "object" \/ isna(t.data[r][i]) THEN NaN
        ELSE JoinSplit(BeforeComma(t.data[r][i]))]

\* C18: in the rental analyzers find_same_street derives the street name as
\* the whitespace-collapsed text before the first comma of the address, puts
\* two listings in the same group exactly when these names are equal, and
\* puts a listing with a null or non-string address in no group.
C18_RentalSameStreetRows ==
    (/\ pc = "constructed"
     /\ arg = "find_same_street"
     /\ analyzer \in RentalAnalyzers
     /\ ~IsEmpty(df)
     /\ HasCol(df, "address")
     /\ HasCol(df, "link"))
    => /\ ret.exc = "none"
       /\ Len(ret.rows) = Cardinality(SharedStreet(BeforeCommaNames(df)))
       /\ {<<ret.rows[k].Street, ret.rows[k].Full_Address, ret.rows[k].Link>> :
              k \in 1..Len(ret.rows)}
          = {<<BeforeCommaNames(df)[r], Field(df, r, "address"), Field(df, r, "link")>> :
                r \in SharedStreet(BeforeCommaNames(df))}

\* the metric the comparison of an analyzer works on
ActiveMetric(a) == IF a \in SaleAnalyzers THEN "price_per_meter" ELSE "price_numeric"

MetricValues(t, a) == ColumnAt(t, ColIndex(t, ActiveMetric(a)))

\* the listings whose value is present and strictly below the mean of the
\* present values
BelowMean(values) ==
    {r \in 1..Len(values) :
        notna(values[r]) /\ notna(Mean(values)) /\ Less(values[r], Mean(values))}

\* C19: find_cheaper_properties takes the mean of the active metric over the
\* values that are not missing and returns exactly the listings whose value is
\* present and strictly below it, each with its difference value - mean (to
\* two decimals) and that difference as a percentage of the mean (to one
\* decimal, followed by "%"), in ascending order of difference.
C19_CheaperThanMean ==
    (/\ pc = "constructed"
     /\ arg = "find_cheaper_properties"
     /\ ~IsEmpty(df)
     /\ HasCol(df, ActiveMetric(analyzer))
     /\ HasCol(df, "address") \/ HasCol(df, "adress")
     /\ HasCol(df, "link"))
    => LET values == MetricValues(df, analyzer)
           avg    == Mean(values)
       IN  /\ ret.exc = "none"
           /\ Len(ret.rows) = Cardinality(BelowMean(values))
           /\ \A r \in BelowMean(values) :
                 \E k \in 1..Len(ret.rows) :
                    /\ ret.rows[k]["link"] = Field(df, r, "link")
                    /\ ret.rows[k][ActiveMetric(analyzer)] = values[r]
                    /\ ret.rows[k]["price_difference_from_avg"] = Round2(Sub(values[r], avg))
                    /\ ret.rows[k]["price_difference_percentage"]
                       = FormatPercentage(Percent(Sub(values[r], avg), avg))
           /\ \A k, l \in 1..Len(ret.rows) :
                 k < l => ~Less(ret.rows[l]["price_difference_from_avg"],
                                ret.rows[k]["price_difference_from_avg"])

\* the file of the analyzer is missing or cannot be parsed
BadFile == csv.status \in {FileMissing, FileUnparsable}

MetricStages == {"_calculate_price_per_meter", "calculate_indicators", "_clean_price_values"}

\* C21: when the CSV file is missing or cannot be parsed, the constructor of
\* each of the four analyzers completes without raising, leaves the analyzer
\* with an empty table, emits one message naming the error, and runs no
\* metric-extraction stage.
C21_BadFileGivesEmptyAnalyzer ==
    (BadFile /\ pc # "load")
    => /\ pc = "constructed"
       /\ IsEmpty(df)
       /\ Len(error) = 1
       /\ error[1].channel \in {"st.error", "print"}
       /\ error[1].text = "Error processing CSV file"
       /\ error[1].exc # "none"
       /\ \A i \in 1..Len(stages) : stages[i] \notin MetricStages

C21_Witness ==
    /\ BadFile
    /\ pc = "constructed"
    /\ analyzer = "Yad2RentalAnalyzer"
    /\ csv.status = FileUnparsable
    /\ error # <<>>

AnalysisNames == {"find_cheaper_properties", "find_same_address", "find_same_street"}

\* C22: on an analyzer holding an empty table (the load failed, or no row
\* survived the filtering), find_cheaper_properties, find_same_address and
\* find_same_street each return an empty result and never raise.
C22_EmptyTableGivesEmptyResult ==
    (pc = "constructed" /\ arg \in AnalysisNames /\ IsEmpty(df))
    => (ret.exc = "none" /\ ret.rows = <<>>)

\* the table holding row r of t alone
OneRow(t, r) == [columns |-> t.columns, dtypes |-> t.dtypes, data |-> <<t.data[r]>>]

\* the metric-extraction stage the constructor is about to run
StageAt(a, p, t) ==
    IF p = "price_per_meter"
    THEN (IF a = "MadlanAnalyzer" THEN madlan_calculate_price_per_meter(t)
          ELSE yad2_calculate_price_per_meter(t))
    ELSE IF p = "indicators"
    THEN (IF a = "MadlanAnalyzer" THEN madlan_calculate_indicators(t)
          ELSE yad2_calculate_indicators(t))
    ELSE clean_price_values(t)

MetricPositions == {"price_per_meter", "indicators", "clean_price"}

\* C24: metric extraction is row-local. A stage that returns keeps the rows
\* and their order, keeps every field the table had before the stage, and
\* gives each row the derived fields it would get as the only row of the
\* table, so an unparsable cell leaves only its own listing without a value.
C24_MetricExtractionRowLocal ==
    [][(pc \in MetricPositions /\ pc' \notin {pc, "raised"})
       => /\ Len(df'.data) = Len(df.data)
          /\ Len(df'.columns) >= Len(df.columns)
          /\ \A i \in 1..Len(df.columns) :
                /\ df'.columns[i] = df.columns[i]
                /\ \A r \in 1..Len(df.data) : df'.data[r][i] = df.data[r][i]
          /\ \A r \in 1..Len(df.data) :
                df'.data[r] = StageAt(analyzer, pc, OneRow(df, r)).df.data[1]]_vars

\* a listing whose info text holds no size stands next to a listing with a
\* price per meter
C24_Witness ==
    /\ pc = "constructed"
    /\ analyzer = "Yad2Analyzer"
    /\ Len(df.data) = 2
    /\ HasCol(df, "price_per_meter")
    /\ \E r, s \in 1..2 :
          /\ ~isna(Field(df, r, "info"))
          /\ ~notna(yad2_extract_size(Field(df, r, "info")))
          /\ ~notna(Field(df, r, "price_per_meter"))
          /\ notna(Field(df, s, "price_per_meter"))

CanonicalFields ==
    {"link", "address", "price_numeric", "size_numeric", "rooms_numeric", "price_per_meter",
     "size_rooms_indicator"}

AnalysisScopedFields == {"price_difference_from_avg", "price_difference_percentage"}

ColumnNames(t) == {t.columns[i] : i \in 1..Len(t.columns)}

\* C25: a call of an analysis on the constructed analyzer leaves the canonical
\* fields of every listing unchanged, and the only fields it adds to the
\* table are price_difference_from_avg and price_difference_percentage.
C25_AnalysesKeepCanonicalFields ==
    [][(pc = "constructed" /\ pc' = "constructed")
       => /\ Len(df'.data) = Len(df.data)
          /\ \A c \in CanonicalFields \cap ColumnNames(df) :
                /\ c \in ColumnNames(df')
                /\ \A r \in 1..Len(df.data) : Field(df', r, c) = Field(df, r, c)
          /\ ColumnNames(df') \ ColumnNames(df) \subseteq AnalysisScopedFields]_vars

\* the fixed display list of a rental analyzer
DisplayListOf(a) == IF a = "RentalAnalyzer" THEN RentalDisplayList ELSE Yad2RentalDisplayList

\* the display fields the table has, in the order of the display list
PresentDisplayFields(a, t) ==
    SelectSeq(DisplayListOf(a), LAMBDA col : col \in ColumnNames(t))

\* C26: get_display_data returns a table with one column for each field of
\* the fixed display list that the analyzer's table has, in the order of the
\* list (under the field's name or its display label); an absent field is
\* left out without an error, the rows are kept, and the analyzer's table is
\* left unchanged.
C26_DisplayColumnsArePresentFields ==
    [][(pc = "constructed" /\ arg' = "get_display_data")
       => /\ df' = df
          /\ ret'.exc = "none"
          /\ Len(ret'.rows) = Len(df.data)
          /\ Len(ret'.columns) = Len(PresentDisplayFields(analyzer, df))
          /\ \A i \in 1..Len(ret'.columns) :
                ret'.columns[i] \in {PresentDisplayFields(analyzer, df)[i],
                                     Yad2RentalLabel(PresentDisplayFields(analyzer, df)[i])}]_vars

\* a table with display fields in another order than the list, without some
\* of them, has been displayed
C26_Witness ==
    /\ pc = "constructed"
    /\ arg = "get_display_data"
    /\ analyzer = "RentalAnalyzer"
    /\ Len(df.data) = 2
    /\ ~HasCol(df, "info")
    /\ ret.columns = <<"link", "address", "price", "floor", "size", "developer_link",
                       "exclusive">>

\* the rows of the table for which the loop of find_cheaper_properties took
\* the branch that divides by the average
DividedRows(t) ==
    {r \in 1..Len(t.data) : notna(Field(t, r, "price_difference_from_avg"))}

\* C27: in every find_cheaper_properties variant the percentage division is
\* never evaluated with a mean of zero or a missing mean: for every listing
\* whose value is strictly below the mean (the listings the loop divides
\* for), the mean is a finite number greater than zero.
C27_PercentageDivisorNotZero ==
    (/\ pc = "constructed"
     /\ arg = "find_cheaper_properties"
     /\ HasCol(df, ActiveMetric(analyzer))
     /\ HasCol(df, "price_difference_from_avg"))
    => LET avg == Mean(MetricValues(df, analyzer)) IN
       /\ \A r \in DividedRows(df) : notna(avg) /\ avg.n > 0 /\ avg.d > 0
       /\ \A r \in BelowMean(MetricValues(df, analyzer)) : r \in DividedRows(df)

\* a listing priced zero is below the mean of a table with a dearer listing
C27_Witness ==
    /\ pc = "constructed"
    /\ arg = "find_cheaper_properties"
    /\ HasCol(df, ActiveMetric(analyzer))
    /\ HasCol(df, "price_difference_from_avg")
    /\ \E r \in DividedRows(df) : MetricValues(df, analyzer)[r] = Whole(0)

\* the comparison ran on a table all of whose prices are zero
C27_ZeroMean ==
    /\ pc = "constructed"
    /\ arg = "find_cheaper_properties"
    /\ HasCol(df, ActiveMetric(analyzer))
    /\ ~IsEmpty(df)
    /\ Mean(MetricValues(df, analyzer)) = Whole(0)


-----------------------------------------------------------------------------
(* The constructors of the rental analyzers on scrapes with a price-change   *)
(* column                                                                      *)

MaxPriceRows == 2

\* the second site's scrape with the price-change text before and after the
\* price, and the first site's twelve and sixteen columns
PriceLayouts(a) ==
    IF a = "RentalAnalyzer" THEN {Rental12, Rental16}
    ELSE {<<"link", "price_change", "address", "price">>,
          <<"link", "address", "price", "price_change">>}

PriceFiles(a) ==
    {[status |-> FileOk,
      header |-> Header(Len(names)),
      lines  |-> [r \in 1..Len(ls) |->
                     [i \in 1..Len(names) |-> AnalysisCell(a, names[i], r, ls[r])]]] :
        names \in PriceLayouts(a), ls \in SeqsUpTo(AnalysisListings, MaxPriceRows)}

InitRentalPrice ==
    /\ analyzer \in RentalAnalyzers
    /\ csv \in PriceFiles(analyzer)
    /\ df = EmptyDF
    /\ pc = "load"
    /\ stages = <<>>
    /\ error = <<>>
    /\ arg = "none"
    /\ ret = "none"
    /\ session = NoSession

NextRentalPrice ==
    \/ RentalLoadAndCleanData
    \/ Yad2RentalLoadAndCleanData
    \/ CleanPriceValues

SpecRentalPrice == InitRentalPrice /\ [][NextRentalPrice]_vars

\* C28: in the rental analyzers price_numeric is derived from the column
\* named price, never from a price-change column, for every column order
\* the normalizer can produce, a price_change column before the price
\* column included.
C28_PriceNumericFromPriceColumn ==
    (/\ pc = "constructed"
     /\ analyzer \in RentalAnalyzers
     /\ HasCol(df, "price")
     /\ HasCol(df, "price_numeric"))
    => \A r \in 1..Len(df.data) :
          Field(df, r, "price_numeric") = ToNumeric(DigitsOf(Field(df, r, "price")))

-----------------------------------------------------------------------------
(* The application: main, landing_page and analysis_page of main.py. A run   *)
(* of analysis_page constructs the analyzer of the source from the file and  *)
(* then shows the analysis type the sidebar holds                             *)

MaxPageRows == 2

Sources == {"madlan", "madlan_rental", "yad2", "yad2_rental"}
RentalSources == {"madlan_rental", "yad2_rental"}

\* the analyzer analysis_page constructs for data_source
AnalyzerFor(source) ==
    IF source \in {"madlan", "madlan_rental"}
    THEN (IF source = "madlan_rental" THEN "RentalAnalyzer" ELSE "MadlanAnalyzer")
    ELSE (IF source = "yad2_rental" THEN "RentalAnalyzer" ELSE "Yad2Analyzer")

\* the options of the sidebar selectbox, the first one selected at the start
AnalysisTypes(source) ==
    IF source \in RentalSources
    THEN <<"Raw Data", "Properties Below Average Rent", "Same Address Properties",
           "Same Street Properties">>
    ELSE <<"Raw Data", "Cheaper Properties", "Same Address Properties",
           "Same Street Properties">>

\* analyzer.find_cheaper_properties() on an analyzer of class a
find_cheaper_properties(a, t) ==
    IF a = "MadlanAnalyzer" THEN madlan_find_cheaper_properties(t)
    ELSE IF a = "Yad2Analyzer" THEN yad2_find_cheaper_properties(t)
    ELSE IF a = "RentalAnalyzer" THEN rental_find_cheaper_properties(t)
    ELSE yad2_rental_find_cheaper_properties(t)

\* analyzer.find_same_address()
find_same_address(a, t) ==
    IF a = "MadlanAnalyzer" THEN madlan_find_same_address(t)
    ELSE IF a = "Yad2Analyzer" THEN yad2_find_same_address(t)
    ELSE IF a = "RentalAnalyzer" THEN rental_find_same_address(t)
    ELSE yad2_rental_find_same_address(t)

\* analyzer.find_same_street()
find_same_street(a, t) ==
    IF a = "MadlanAnalyzer" THEN madlan_find_same_street(t)
    ELSE IF a = "Yad2Analyzer" THEN yad2_find_same_street(t)
    ELSE IF a = "RentalAnalyzer" THEN rental_find_same_street(t)
    ELSE yad2_rental_find_same_street(t)

\* f"{x:,.2f}" of a value that is not negative; "nan" for a missing one
Fixed2(x) ==
    IF ~notna(x) THEN "nan"
    ELSE LET h == Round2(x).n * (100 \div Round2(x).d)
         IN  Commas(ToString(h \div 100)) \o "." \o ToString((h % 100) \div 10)
             \o ToString(h % 10)

\* the three metrics of the rental sources: lowest, highest and average rent
RentalStatistics(t) ==
    IF HasCol(t, "price_numeric")
    THEN LET values == ColumnAt(t, ColIndex(t, "price_numeric"))
         IN  <<FormatPrice(MinOf(values)), FormatPrice(MaxOf(values)),
               FormatPrice(Mean(values))>>
    ELSE <<"N/A", "N/A", "N/A">>

\* the metrics of the sale sources: average price per square meter, average
\* size and the number of listings
SaleStatistics(t, available) ==
    <<IF \E i \in 1..Len(available) : available[i] = "price_per_meter"
      THEN "₪" \o Fixed2(Mean(ColumnAt(t, ColIndex(t, "price_per_meter"))))
      ELSE "N/A",
      IF HasCol(t, "size_numeric")
      THEN Fixed2(Mean(ColumnAt(t, ColIndex(t, "size_numeric")))) \o " m²"
      ELSE "N/A",
      ToString(Len(t.data))>>

Yad2AllColumns ==
    <<"link", "publisher", "price", "info", "address", "more_info_1", "more_info_2",
      "more_info_3", "price_change", "price_per_meter", "size_rooms_indicator">>

MadlanAllColumns ==
    <<"link", "address", "rooms", "floor", "size", "price", "project_name", "exclusive",
      "price_per_meter", "developer_link", "size_rooms_indicator">>

\* what a branch of analysis_page did: the operation of the analyzer it
\* called, the exception that ended it ("none" when the page was drawn), the
\* columns or rows of the table it drew, the metrics it drew, and self.df
Drawn(operation, shown, statistics, t) ==
    [operation |-> operation, exc |-> "none", shown |-> shown, statistics |-> statistics,
     df |-> t]

Failed(operation, exc, t) ==
    [operation |-> operation, exc |-> exc, shown |-> <<>>, statistics |-> <<>>, df |-> t]

\* the branch "Raw Data"
RawData(source, a, t) ==
    IF source = "yad2_rental"
    THEN (IF a \notin RentalAnalyzers THEN Failed("get_display_data", "AttributeError", t)
          ELSE Drawn("get_display_data",
                     IF a = "RentalAnalyzer" THEN rental_get_display_data(t).columns
                     ELSE yad2_rental_get_display_data(t).columns,
                     RentalStatistics(t), t))
    ELSE LET available == AvailableColumns(t, IF source = "yad2" THEN Yad2AllColumns
                                              ELSE MadlanAllColumns)
         IN  IF available = <<>> THEN Drawn("df", <<>>, <<>>, t)
             ELSE Drawn("df", available,
                        IF source \in RentalSources THEN RentalStatistics(t)
                        ELSE SaleStatistics(t, available), t)

\* the branches of the cheaper listings: the table r of
\* find_cheaper_properties, then the average
CheaperBranch(r, metric) ==
    IF r.exc # "none" THEN Failed("find_cheaper_properties", r.exc, r.df)
    ELSE IF ~HasCol(r.df, metric) THEN Failed("find_cheaper_properties", "KeyError", r.df)
    ELSE Drawn("find_cheaper_properties", r.rows,
               <<IF metric = "price_numeric"
                 THEN FormatPrice(Mean(ColumnAt(r.df, ColIndex(r.df, metric))))
                 ELSE "₪" \o Fixed2(Mean(ColumnAt(r.df, ColIndex(r.df, metric)))),
                 ToString(Len(r.rows))>>, r.df)

\* a branch that draws the result and counts its 'Address' or 'Street'
\* values: a result without rows has no columns
CountedBranch(operation, r) ==
    IF r.exc # "none" THEN Failed(operation, r.exc, r.df)
    ELSE IF r.rows = <<>> THEN Failed(operation, "KeyError", r.df)
    ELSE Drawn(operation, r.rows, <<ToString(Len(r.rows))>>, r.df)

\* the if/elif chain of analysis_page over analysis_type
Branch(source, analysis_type, a, t) ==
    IF analysis_type = "Raw Data" THEN RawData(source, a, t)
    ELSE IF analysis_type = "Cheaper Properties" /\ source \notin RentalSources
    THEN CheaperBranch(find_cheaper_properties(a, t), "price_per_meter")
    ELSE IF analysis_type = "Properties Below Average Rent" /\ source \in RentalSources
    THEN CheaperBranch(find_cheaper_properties(a, t), "price_numeric")
    ELSE IF analysis_type = "Properties at Same Address" /\ source \in RentalSources
    THEN CountedBranch("find_same_address", find_same_address(a, t))
    ELSE CountedBranch("find_same_street", find_same_street(a, t))

\* the file madlan/madlan.csv every analyzer is constructed from: a scrape of
\* either site, or no file
PageFiles ==
    UNION {{[status |-> FileOk,
             header |-> Header(Len(names)),
             lines  |-> [r \in 1..Len(ls) |->
                            [i \in 1..Len(names) |-> AnalysisCell(a, names[i], r, ls[r])]]] :
               names \in AnalysisLayouts(a), ls \in SeqsUpTo(AnalysisListings, MaxPageRows)} :
           a \in Analyzers}
    \cup {NoFile}

InitPage ==
    /\ analyzer = "none"
    /\ csv \in PageFiles
    /\ df = EmptyDF
    /\ pc = "landing"
    /\ stages = <<>>
    /\ error = <<>>
    /\ arg = "none"
    /\ ret = "none"
    /\ session = NoSession

\* one of the four source buttons of landing_page
SelectSource(source) ==
    /\ pc = "landing"
    /\ session' = [session EXCEPT !.source = source]
    /\ UNCHANGED <<analyzer, csv, df, pc, stages, error, arg, ret>>

\* a run of analysis_page starts: the analyzer of the source is constructed
RunAnalysisPage(source, analysis_type) ==
    /\ analyzer' = AnalyzerFor(source)
    /\ df' = EmptyDF
    /\ stages' = <<>>
    /\ error' = <<>>
    /\ arg' = analysis_type
    /\ ret' = "none"
    /\ pc' = "load"
    /\ UNCHANGED csv

\* the button "Generate Analysis", drawn only when a source is selected
GenerateAnalysis ==
    /\ pc = "landing"
    /\ session.source # "none"
    /\ session' = [session EXCEPT !.page = "analysis"]
    /\ RunAnalysisPage(session.source, AnalysisTypes(session.source)[1])

\* the page after a branch did r: an exception ends the run
Show(r) ==
    /\ ret' = [operation |-> r.operation, exc |-> r.exc, shown |-> r.shown,
               statistics |-> r.statistics]
    /\ df' = r.df
    /\ pc' = IF r.exc = "none" THEN "shown" ELSE "failed"
    /\ UNCHANGED <<analyzer, csv, stages, error, arg, session>>

\* the rest of the run once the analyzer is constructed
ShowAnalysis ==
    /\ pc = "constructed"
    /\ session.page = "analysis"
    /\ Show(Branch(session.source, arg, analyzer, df))

\* another option of the sidebar selectbox: the script runs again
ChooseAnalysis(analysis_type) ==
    /\ pc \in {"shown", "failed"}
    /\ \E i \in 1..Len(AnalysisTypes(session.source)) :
          AnalysisTypes(session.source)[i] = analysis_type
    /\ RunAnalysisPage(session.source, analysis_type)
    /\ UNCHANGED session

\* the button "Return to Home", drawn after analysis_page returned
ReturnToHome ==
    /\ pc = "shown"
    /\ session' = [page |-> "landing", source |-> "none"]
    /\ analyzer' = "none"
    /\ df' = EmptyDF
    /\ stages' = <<>>
    /\ error' = <<>>
    /\ arg' = "none"
    /\ ret' = "none"
    /\ pc' = "landing"
    /\ UNCHANGED csv

NextPage ==
    \/ \E source \in Sources : SelectSource(source)
    \/ GenerateAnalysis
    \/ MadlanLoadAndCleanData
    \/ RentalLoadAndCleanData
    \/ Yad2LoadAndCleanData
    \/ MadlanCalculatePricePerMeter
    \/ Yad2CalculatePricePerMeter
    \/ MadlanCalculateIndicators
    \/ Yad2CalculateIndicators
    \/ CleanPriceValues
    \/ ShowAnalysis
    \/ \E analysis_type \in {"Raw Data", "Cheaper Properties",
                             "Properties Below Average Rent", "Same Address Properties",
                             "Same Street Properties"} : ChooseAnalysis(analysis_type)
    \/ ReturnToHome

SpecPage == InitPage /\ [][NextPage]_vars

\* the price metric the statistics of a source are taken of
SourceMetric(source) == IF source \in RentalSources THEN "price_numeric" ELSE "price_per_meter"

\* the table has no row, or no row with a value of the metric
NoMetricValues(t, metric) ==
    \/ Len(t.data) = 0
    \/ ~HasCol(t, metric)
    \/ \A r \in 1..Len(t.data) : ~notna(Field(t, r, metric))

\* the positions of the minimum, maximum and mean of the price metric among
\* the metrics drawn for a source
PriceStatistics(source) == IF source \in RentalSources THEN {1, 2, 3} ELSE {1}

\* C23: when the collection has zero rows or zero non-missing values of the
\* active price metric, the aggregate statistics the analysis page shows
\* (minimum, maximum, mean) read "N/A"; none is the formatting of a missing
\* value.
C23_StatisticsNotAvailable ==
    (/\ pc = "shown"
     /\ arg = "Raw Data"
     /\ ret.statistics # <<>>
     /\ NoMetricValues(df, SourceMetric(session.source)))
    => \A i \in PriceStatistics(session.source) : ret.statistics[i] = "N/A"

\* the analyzer of the site and listing kind of a source
SiteAnalyzer(source) ==
    IF source = "madlan" THEN "MadlanAnalyzer"
    ELSE IF source = "madlan_rental" THEN "RentalAnalyzer"
    ELSE IF source = "yad2" THEN "Yad2Analyzer"
    ELSE "Yad2RentalAnalyzer"

\* the analysis page is only entered with a source selected
PageHasSource == session.page = "analysis" => session.source \in Sources

\* the analyzer built on the analysis page is the one of the source
PageHasSiteAnalyzer == session.page = "analysis" => analyzer = SiteAnalyzer(session.source)

\* a return to the landing page resets the source to none
ReturnResetsSource ==
    (session.page = "analysis" /\ session'.page = "landing") => session'.source = "none"

\* C29: the analysis page builds, for each of the four sources, the analyzer
\* of that site and listing kind (madlan: MadlanAnalyzer, madlan_rental:
\* RentalAnalyzer, yad2: Yad2Analyzer, yad2_rental: Yad2RentalAnalyzer); the
\* page is only ever entered with a source selected, and the source is reset
\* to none on every return to the landing page.
C29_SourceBuildsItsAnalyzer ==
    /\ [](PageHasSource /\ PageHasSiteAnalyzer)
    /\ [][ReturnResetsSource]_vars

\* the operation an analysis type of the sidebar names
MatchingOperation(analysis_type) ==
    IF analysis_type = "Same Address Properties" THEN "find_same_address"
    ELSE IF analysis_type = "Same Street Properties" THEN "find_same_street"
    ELSE "find_cheaper_properties"

\* C30: for every source, each analysis type offered in the sidebar runs the
\* matching operation: "Same Address Properties" runs find_same_address,
\* "Same Street Properties" runs find_same_street and the cheaper or
\* below-average choice runs find_cheaper_properties.
C30_ChoiceRunsMatchingOperation ==
    (pc \in {"shown", "failed"} /\ arg # "Raw Data")
    => ret.operation = MatchingOperation(arg)


=============================================================================
